---- MODULE Spec2Model ----
(***************************************************************************)
(* Ledger transfer engine of the mobile-money application                  *)
(* (mpesa_app/views.py, mpesa_app/models.py).                              *)
(*                                                                         *)
(* Money is counted in minor units (cents): a DecimalField with two        *)
(* decimal places holds an integer number of cents.  Requested amounts are *)
(* whole numbers of cents, of either sign; the amount of a loan repayment  *)
(* is counted in half cents, and a stored value is rounded to whole cents  *)
(* the way the database backend rounds it.                                 *)
(*                                                                         *)
(* Spec is the transfer engine; LoanSpec and LoanSeqSpec are the loan      *)
(* requests, interleaved and served one at a time; TermsSpec computes loan *)
(* terms over a range of products; ChargeSpec looks charges up over a      *)
(* range of band tables.  TransferSpec is the send-money requests under a  *)
(* fair scheduler.  BandSpec, RecordSpec, UserSpec and AgentSpec add the   *)
(* requests the ModelViewSets serve on charge bands, stored records, users *)
(* and agents.  SeqSpec serves all transaction and loan requests one at a  *)
(* time; LoanUpdateSpec adds the update of a loan; IdSpec is the string    *)
(* generate_transaction_id returns.                                        *)
(*                                                                         *)
(* Every request handler runs in its own process; the handlers use no      *)
(* transaction.atomic, no select_for_update and no F() expression, so each *)
(* ORM call (a load, a save, a create) is one atomic step and the steps of *)
(* two handlers interleave freely.  Model.save() writes the in-memory copy *)
(* of the row, whatever the stored row holds by then.                      *)
(***************************************************************************)
EXTENDS Integers, FiniteSets, Sequences, TLC

\* ------------------------------------------------------------------ bounds
\* Largest amount a request asks for; requests range over -1 .. MaxAmount.
MaxAmount == 1
\* Number of distinct random suffixes generate_transaction_id can return.
MaxId == 2

\* Largest loan repayment a request asks for, in half cents.
MaxRepay == 3
\* Number of requests a process serves in the loan specification.
MaxRequests == 2

\* Number of requests the single worker serves when requests run one at a time.
MaxSeqRequests == 4

Amounts == (-1) .. MaxAmount
IdSuffixes == 1 .. MaxId

\* ------------------------------------------------------------ the database
\* Request handlers that run concurrently.
Procs == {"p1", "p2"}

\* Registered users; each has a wallet (UserRegistrationSerializer.create).
Users == {"u1", "u2", "u3", "u4"}
\* A phone number identifies its user; "nobody" is a number of no user.
Phones == Users \cup {"nobody"}

\* models.User.user_type of each registered user; u4 is the administrator.
user_type ==
    [u \in Users |-> CASE u = "u1" -> "CUSTOMER" [] u = "u4" -> "ADMIN" [] OTHER -> "AGENT"]
\* User.is_staff, which IsAdminUser reads.
is_staff == [u \in Users |-> u = "u4"]

\* Agent numbers a request can name; "A0" is the number of no agent.  A1 is
\* the active agent of user u2, A2 the suspended agent of user u3.
AgentNumbers == {"A1", "A2"}
AgentInputs == AgentNumbers \cup {"A0"}

\* Business numbers a request can name.  models.Merchant rows: M1 is an
\* active PayBill, M2 a suspended PayBill, T1 an active till; all belong
\* to user u3, whose wallet is inactive.
BusinessNumbers == {"M1", "M2", "T1"}
merchants ==
    [b \in BusinessNumbers |->
        CASE b = "M1" -> [merchant_type |-> "PAYBILL", status |-> "ACTIVE",    user |-> "u3"]
          [] b = "M2" -> [merchant_type |-> "PAYBILL", status |-> "SUSPENDED", user |-> "u3"]
          [] OTHER    -> [merchant_type |-> "TILL",    status |-> "ACTIVE",    user |-> "u3"]]

VARIABLES
    walletBalance,        \* Wallet.balance of each user's wallet
    walletActive,         \* Wallet.is_active
    agents,               \* Agent rows by agent_number
    charges,              \* TransactionCharge rows
    sendMoney,            \* SendMoney rows
    withdrawals,          \* Withdrawal rows
    deposits,             \* Deposit rows
    payBills,             \* PayBill rows
    buyGoods,             \* BuyGoods rows
    airtimePurchases,     \* AirtimePurchase rows
    walletTransactions,   \* WalletTransaction rows (the ledger entries)
    commissions,          \* Commission rows, in insertion order
    backend,              \* the database backend of the deployment
    loanProducts,         \* LoanProduct rows by id
    loans,                \* Loan rows by loan_id
    loanRepayments,       \* LoanRepayment rows
    handler               \* each process: its request, position and locals

balanceVars == <<walletBalance, agents>>
configVars == <<walletActive, charges>>
recordVars == <<sendMoney, withdrawals, deposits, payBills, buyGoods, airtimePurchases,
                walletTransactions, commissions>>
loanVars == <<backend, loanProducts, loans, loanRepayments>>
dbVars == <<walletBalance, walletActive, agents, charges, sendMoney, withdrawals,
            deposits, payBills, buyGoods, airtimePurchases, walletTransactions,
            commissions, loanVars>>
vars == <<walletBalance, walletActive, agents, charges, sendMoney, withdrawals,
          deposits, payBills, buyGoods, airtimePurchases, walletTransactions,
          commissions, loanVars, handler>>

\* ------------------------------------------------------------------ helpers
\* views.generate_transaction_id: prefix, timestamp and six random hex
\* digits.  Two calls in the same second with the same random digits return
\* the same identifier, so the result is any suffix of the bounded space.
generate_transaction_id(prefix) == {<<prefix, n>> : n \in IdSuffixes}

\* The query without its is_active=True condition.
MatchingCharges_IgnoresActive(transaction_type, amount) ==
    {c \in charges : /\ c.transaction_type = transaction_type
                     /\ c.min_amount <= amount
                     /\ c.max_amount >= amount}

\* The active bands get_transaction_charge's query matches.
MatchingCharges(transaction_type, amount) ==
    {c \in charges : /\ c.transaction_type = transaction_type
                     /\ c.min_amount <= amount
                     /\ c.max_amount >= amount
                     /\ c.is_active}

\* views.get_transaction_charge: the charge of the matching band, zero when
\* none matches (DoesNotExist is caught).
get_transaction_charge(transaction_type, amount) ==
    IF MatchingCharges(transaction_type, amount) = {}
    THEN 0
    ELSE (CHOOSE c \in MatchingCharges(transaction_type, amount) : TRUE).charge

\* TransactionCharge.objects.get raises MultipleObjectsReturned, which
\* get_transaction_charge does not catch, when several bands match.
MultipleObjectsReturned(transaction_type, amount) ==
    Cardinality(MatchingCharges(transaction_type, amount)) > 1

\* The check without its comparison of the balance.
can_transact_IgnoresBalance(is_active, balance, amount) == is_active

\* Wallet.can_transact on an in-memory wallet.
can_transact(is_active, balance, amount) == is_active /\ balance >= amount

\* A table without the unique constraint on its id column: no insert is
\* refused.
KeyTaken_NoUniqueConstraint(table, transaction_id) == FALSE

\* A unique column: the insert raises IntegrityError when the key is taken.
KeyTaken(table, transaction_id) == \E r \in table : r.transaction_id = transaction_id

\* Decimal quantized to whole cents, ties to even (the storage rounding of a
\* two-decimal DecimalField): num / den cents, den > 0.
RoundHalfEven(num, den) ==
    LET q == num \div den
        r == num % den
    IN  IF 2 * r < den THEN q
        ELSE IF 2 * r > den THEN q + 1
        ELSE IF q % 2 = 0 THEN q ELSE q + 1

\* The same quotient with ties away from zero.
RoundHalfUp(num, den) ==
    LET q == num \div den
        r == num % den
    IN  IF 2 * r < den THEN q
        ELSE IF 2 * r > den THEN q + 1
        ELSE IF num >= 0 THEN q + 1 ELSE q

\* A Decimal the code computes from a request's amount can have more than two
\* decimal places.  Where that matters the in-memory value is counted in half
\* cents; Halves is the stored (two-decimal) value read into memory.
Halves(cents) == 2 * cents

\* The backends a deployment can use: formatting the value for the insert
\* (sqlite, mysql, oracle) quantizes with ties to even, a numeric(n, 2)
\* column of postgresql rounds ties away from zero.
Backends == {"sqlite", "postgresql"}

\* What a two-decimal DecimalField stores, in cents, of a value in half cents.
adapt_decimalfield_value(halves) ==
    IF backend = "postgresql" THEN RoundHalfUp(halves, 2) ELSE RoundHalfEven(halves, 2)

\* ------------------------------------------------------------ handler state
ZeroEffect == [u \in Users |-> 0]
NoAgent == [user |-> "", status |-> "", float_balance |-> 0, commission_rate |-> 0]
NoLoan == [borrower |-> "", product |-> "", principal_amount |-> 0, interest_amount |-> 0,
           facilitation_fee |-> 0, total_amount |-> 0, amount_paid |-> 0, balance |-> 0,
           status |-> "", disbursed |-> FALSE]

NoBand == [id |-> 0, transaction_type |-> "", min_amount |-> 0, max_amount |-> 0,
           charge |-> 0, is_active |-> FALSE]

NoRecord == [transaction_id |-> <<>>]

IdleHandler ==
    [pc |-> "idle", kind |-> "", user |-> "", target |-> "", amount |-> 0,
     result |-> "", charge |-> 0, total_amount |-> 0, commission |-> 0,
     transaction_id |-> <<>>,
     wallet_balance |-> 0,      \* balance of the in-memory source/customer wallet
     balance_before |-> 0, balance_after |-> 0,
     other_balance |-> 0,       \* balance of the in-memory destination wallet
     other_before |-> 0, other_after |-> 0,
     agent_number |-> "",       \* the agent the call works with
     agent |-> NoAgent,         \* the in-memory Agent object
     loan_id |-> <<>>,          \* the loan the call works with
     loan |-> NoLoan,           \* the in-memory Loan object, as loaded
     band |-> NoBand,           \* the in-memory TransactionCharge object
     record |-> NoRecord,       \* the in-memory transaction record of get_object
     served |-> 0,              \* requests the process has served before this one
     \* bookkeeping of the verification, not program state:
     mutated |-> FALSE,         \* the call has saved a balance
     effect |-> ZeroEffect,     \* change of each stored balance made by the call's saves
     floatEffect |-> 0,         \* change of the stored float made by the call's saves
     rows |-> 0]                \* rows the call has inserted

Set(p, h) == handler' = [handler EXCEPT ![p] = h]

\* The response leaves the handler; nothing more runs for the request.
Respond(h, code) == [h EXCEPT !.pc = "done", !.result = code]

\* The balances the wallets hold when the requests arrive.
OpeningBalance ==
    [u \in Users |-> CASE u = "u1" -> 2 [] u \in {"u2", "u4"} -> 1 [] OTHER -> 0]

Init ==
    /\ walletBalance = OpeningBalance
    /\ walletActive = [u \in Users |-> u # "u3"]
    /\ agents = [a \in AgentNumbers |->
                   IF a = "A1"
                   THEN [user |-> "u2", status |-> "ACTIVE", float_balance |-> 1,
                         commission_rate |-> 50]
                   ELSE [user |-> "u3", status |-> "SUSPENDED", float_balance |-> 1,
                         commission_rate |-> 50]]
    /\ charges = {[id |-> 1, transaction_type |-> "SEND_MONEY", min_amount |-> 1,
                   max_amount |-> 3, charge |-> 1, is_active |-> TRUE],
                  [id |-> 2, transaction_type |-> "WITHDRAWAL", min_amount |-> 1,
                   max_amount |-> 3, charge |-> 1, is_active |-> TRUE],
                  [id |-> 3, transaction_type |-> "PAYBILL", min_amount |-> 1,
                   max_amount |-> 3, charge |-> 1, is_active |-> TRUE]}
    /\ sendMoney = {}
    /\ withdrawals = {}
    /\ deposits = {}
    /\ payBills = {}
    /\ buyGoods = {}
    /\ airtimePurchases = {}
    /\ walletTransactions = {}
    /\ commissions = <<>>
    /\ backend = "sqlite"
    /\ loanProducts = <<>>
    /\ loans = <<>>
    /\ loanRepayments = {}
    /\ handler = [p \in Procs |-> IdleHandler]

\* ------------------------------------------------------- steps shared by kinds
\* wallet.balance -= total_amount; wallet.save() on the requester's wallet,
\* with the balance_before / balance_after locals around it.
DebitWallet(p, nextpc) ==
    LET h == handler[p]
        balance == h.wallet_balance - h.total_amount
    IN  /\ walletBalance' = [walletBalance EXCEPT ![h.user] = balance]
        /\ Set(p, [h EXCEPT !.pc = nextpc,
                            !.balance_before = h.wallet_balance,
                            !.wallet_balance = balance,
                            !.balance_after = balance,
                            !.mutated = TRUE,
                            !.effect[h.user] = @ + (balance - walletBalance[h.user])])
        /\ UNCHANGED <<agents, configVars, loanVars, recordVars>>

\* other_wallet = <user>.wallet: the destination wallet is read from the
\* database when the attribute is first used.
LoadOtherWallet(p, owner, nextpc) ==
    LET h == handler[p]
    IN  /\ Set(p, [h EXCEPT !.pc = nextpc,
                            !.other_balance = walletBalance[owner],
                            !.other_before = walletBalance[owner]])
        /\ UNCHANGED dbVars

\* other_wallet.balance += amount; other_wallet.save()
CreditOtherWallet(p, owner, nextpc) ==
    LET h == handler[p]
        balance == h.other_balance + h.amount
    IN  /\ walletBalance' = [walletBalance EXCEPT ![owner] = balance]
        /\ Set(p, [h EXCEPT !.pc = nextpc,
                            !.other_balance = balance,
                            !.other_after = balance,
                            !.mutated = TRUE,
                            !.effect[owner] = @ + (balance - walletBalance[owner])])
        /\ UNCHANGED <<agents, configVars, loanVars, recordVars>>

\* agent.float_balance -= amount; agent.save(): the whole in-memory row is
\* written back.
SaveAgentFloat(p, nextpc) ==
    LET h == handler[p]
        row == [h.agent EXCEPT !.float_balance = @ - h.amount]
    IN  /\ agents' = [agents EXCEPT ![h.agent_number] = row]
        /\ Set(p, [h EXCEPT !.pc = nextpc,
                            !.agent = row,
                            !.mutated = TRUE,
                            !.floatEffect = @ + (row.float_balance
                                                 - agents[h.agent_number].float_balance)])
        /\ UNCHANGED <<walletBalance, configVars, loanVars, recordVars>>

\* WalletTransaction.objects.create(...): transaction_id is unique, so the
\* insert raises IntegrityError (an unhandled 500) when the id is present.
CreateWalletTransaction(p, owner, transaction_type, amount, before, after, nextpc, code) ==
    LET h == handler[p]
        row == [transaction_id |-> h.transaction_id, wallet |-> owner,
                transaction_type |-> transaction_type, amount |-> amount,
                balance_before |-> before, balance_after |-> after,
                status |-> "COMPLETED"]
    IN  /\ IF KeyTaken(walletTransactions, h.transaction_id)
           THEN /\ Set(p, Respond(h, "500"))
                /\ UNCHANGED walletTransactions
           ELSE /\ walletTransactions' = walletTransactions \cup {row}
                /\ Set(p, [(IF nextpc = "done" THEN Respond(h, code) ELSE h)
                             EXCEPT !.pc = nextpc, !.rows = @ + 1])
        /\ UNCHANGED <<balanceVars, configVars, loanVars, sendMoney, withdrawals, deposits, payBills,
                       buyGoods, airtimePurchases, commissions>>

\* Commission.objects.create(...): no unique column, the insert succeeds;
\* the handler then returns 201.
CreateCommission(p, commission_type) ==
    LET h == handler[p]
        row == [recipient |-> h.agent.user, commission_type |-> commission_type,
                transaction_id |-> h.transaction_id, amount |-> h.commission]
    IN  /\ commissions' = Append(commissions, row)
        /\ Set(p, [Respond(h, "201") EXCEPT !.rows = @ + 1])
        /\ UNCHANGED <<balanceVars, configVars, loanVars, sendMoney, withdrawals, deposits, payBills,
                       buyGoods, airtimePurchases, walletTransactions>>

\* ---------------------------------------------------------------- send money
\* SendMoneyViewSet.create: receiver lookup, sender wallet load, charge and
\* balance check.
SendMoney_create(p) ==
    /\ handler[p].pc = "idle"
    /\ \E sender \in Users, receiver_phone \in Phones, amount \in Amounts :
         LET charge == get_transaction_charge("SEND_MONEY", amount)
             total_amount == amount + charge
             h0 == [handler[p] EXCEPT !.kind = "SEND_MONEY", !.user = sender,
                                       !.target = receiver_phone, !.amount = amount]
         IN  IF receiver_phone \notin Users
             THEN Set(p, Respond(h0, "404"))
             ELSE IF MultipleObjectsReturned("SEND_MONEY", amount)
             THEN Set(p, Respond(h0, "500"))
             ELSE IF ~can_transact(walletActive[sender], walletBalance[sender], total_amount)
             THEN Set(p, Respond(h0, "400"))
             ELSE Set(p, [h0 EXCEPT !.pc = "sm_debit", !.charge = charge,
                                    !.total_amount = total_amount,
                                    !.wallet_balance = walletBalance[sender]])
    /\ UNCHANGED dbVars

\* Deduct from sender.
SendMoney_debit(p) ==
    /\ handler[p].pc = "sm_debit"
    /\ DebitWallet(p, "sm_load")

\* The load as it would be with row locks taken in request order: a transfer
\* holds its sender's wallet from the debit to its response and waits here
\* while another transfer holds the receiver's wallet.
SendMoney_load_WaitsForRowLock(p) ==
    /\ handler[p].pc = "sm_load"
    /\ \A q \in Procs \ {p} :
          ~ /\ handler[q].kind = "SEND_MONEY"
            /\ handler[q].pc \in {"sm_load", "sm_credit", "sm_record", "sm_ledger_sender",
                                  "sm_ledger_receiver"}
            /\ handler[q].user = handler[p].target
    /\ LoadOtherWallet(p, handler[p].target, "sm_credit")

\* receiver_wallet = receiver.wallet
SendMoney_load(p) ==
    /\ handler[p].pc = "sm_load"
    /\ LoadOtherWallet(p, handler[p].target, "sm_credit")

\* Add to receiver.
SendMoney_credit(p) ==
    /\ handler[p].pc = "sm_credit"
    /\ CreditOtherWallet(p, handler[p].target, "sm_record")

\* SendMoney.objects.create(...) under the id of generate_transaction_id('SM').
SendMoney_record(p) ==
    LET h == handler[p]
    IN  /\ h.pc = "sm_record"
        /\ \E transaction_id \in generate_transaction_id("SM") :
             LET row == [transaction_id |-> transaction_id, sender |-> h.user,
                         receiver |-> h.target, amount |-> h.amount, charge |-> h.charge,
                         total_amount |-> h.total_amount,
                         sender_balance_before |-> h.balance_before,
                         sender_balance_after |-> h.balance_after,
                         receiver_balance_before |-> h.other_before,
                         receiver_balance_after |-> h.other_after,
                         status |-> "COMPLETED"]
                 h1 == [h EXCEPT !.transaction_id = transaction_id]
             IN  IF KeyTaken(sendMoney, transaction_id)
                 THEN /\ Set(p, Respond(h1, "500"))
                      /\ UNCHANGED sendMoney
                 ELSE /\ sendMoney' = sendMoney \cup {row}
                      /\ Set(p, [h1 EXCEPT !.pc = "sm_ledger_sender", !.rows = @ + 1])
        /\ UNCHANGED <<balanceVars, configVars, loanVars, withdrawals, deposits, payBills, buyGoods,
                       airtimePurchases, walletTransactions, commissions>>

\* The sender's WalletTransaction.
SendMoney_ledger_sender(p) ==
    LET h == handler[p]
    IN  /\ h.pc = "sm_ledger_sender"
        /\ CreateWalletTransaction(p, h.user, "TRANSFER", h.total_amount, h.balance_before,
                                   h.balance_after, "sm_ledger_receiver", "")

\* The receiver's WalletTransaction, under the same transaction_id.
SendMoney_ledger_receiver(p) ==
    LET h == handler[p]
    IN  /\ h.pc = "sm_ledger_receiver"
        /\ CreateWalletTransaction(p, h.target, "TRANSFER", h.amount, h.other_before,
                                   h.other_after, "done", "201")

\* ---------------------------------------------------------------- withdrawal
\* WithdrawalViewSet.create: agent lookup (status ACTIVE) and float check.
Withdrawal_create(p) ==
    /\ handler[p].pc = "idle"
    /\ \E customer \in Users, agent_number \in AgentInputs, amount \in Amounts :
         LET h0 == [handler[p] EXCEPT !.kind = "WITHDRAWAL", !.user = customer,
                                       !.target = agent_number, !.amount = amount]
         IN  IF agent_number \notin AgentNumbers
             THEN Set(p, Respond(h0, "404"))
             ELSE IF agents[agent_number].status # "ACTIVE"
             THEN Set(p, Respond(h0, "404"))
             ELSE IF agents[agent_number].float_balance < amount
             THEN Set(p, Respond(h0, "400"))
             ELSE Set(p, [h0 EXCEPT !.pc = "wd_wallet", !.agent_number = agent_number,
                                    !.agent = agents[agent_number]])
    /\ UNCHANGED dbVars

\* Withdrawal_wallet with the debit saved before the balance check.
Withdrawal_wallet_DebitBeforeCheck(p) ==
    LET h == handler[p]
        charge == get_transaction_charge("WITHDRAWAL", h.amount)
        total_amount == h.amount + charge
    IN  /\ h.pc = "wd_wallet"
        /\ IF ~can_transact(walletActive[h.user], walletBalance[h.user], total_amount)
           THEN /\ Set(p, Respond(h, "400"))
                /\ walletBalance' = [walletBalance EXCEPT ![h.user] = @ - total_amount]
           ELSE /\ Set(p, [h EXCEPT !.pc = "wd_debit", !.charge = charge,
                                    !.total_amount = total_amount,
                                    !.commission = RoundHalfEven(charge * 3, 10),
                                    !.wallet_balance = walletBalance[h.user]])
                /\ UNCHANGED walletBalance
        /\ UNCHANGED <<agents, configVars, loanVars, recordVars>>

\* customer.wallet, charge, commission and balance check.
Withdrawal_wallet(p) ==
    LET h == handler[p]
        charge == get_transaction_charge("WITHDRAWAL", h.amount)
        total_amount == h.amount + charge
    IN  /\ h.pc = "wd_wallet"
        /\ IF MultipleObjectsReturned("WITHDRAWAL", h.amount)
           THEN Set(p, Respond(h, "500"))
           ELSE IF ~can_transact(walletActive[h.user], walletBalance[h.user], total_amount)
           THEN Set(p, Respond(h, "400"))
           ELSE Set(p, [h EXCEPT !.pc = "wd_debit", !.charge = charge,
                                 !.total_amount = total_amount,
                                 !.commission = RoundHalfEven(charge * 3, 10),
                                 !.wallet_balance = walletBalance[h.user]])
        /\ UNCHANGED dbVars

\* Deduct from customer.
Withdrawal_debit(p) ==
    /\ handler[p].pc = "wd_debit"
    /\ DebitWallet(p, "wd_float")

\* Update agent float.
Withdrawal_float(p) ==
    /\ handler[p].pc = "wd_float"
    /\ SaveAgentFloat(p, "wd_record")

\* Withdrawal.objects.create(...) under the id of generate_transaction_id('WD').
Withdrawal_record(p) ==
    LET h == handler[p]
    IN  /\ h.pc = "wd_record"
        /\ \E transaction_id \in generate_transaction_id("WD") :
             LET row == [transaction_id |-> transaction_id, customer |-> h.user,
                         agent |-> h.agent_number, amount |-> h.amount,
                         charge |-> h.charge, total_amount |-> h.total_amount,
                         customer_balance_before |-> h.balance_before,
                         customer_balance_after |-> h.balance_after,
                         agent_commission |-> h.commission, status |-> "COMPLETED"]
                 h1 == [h EXCEPT !.transaction_id = transaction_id]
             IN  IF KeyTaken(withdrawals, transaction_id)
                 THEN /\ Set(p, Respond(h1, "500"))
                      /\ UNCHANGED withdrawals
                 ELSE /\ withdrawals' = withdrawals \cup {row}
                      /\ Set(p, [h1 EXCEPT !.pc = "wd_ledger", !.rows = @ + 1])
        /\ UNCHANGED <<balanceVars, configVars, loanVars, sendMoney, deposits, payBills, buyGoods,
                       airtimePurchases, walletTransactions, commissions>>

\* The customer's WalletTransaction.
Withdrawal_ledger(p) ==
    LET h == handler[p]
    IN  /\ h.pc = "wd_ledger"
        /\ CreateWalletTransaction(p, h.user, "WITHDRAWAL", h.total_amount, h.balance_before,
                                   h.balance_after, "wd_commission", "")

\* Record commission.
Withdrawal_commission(p) ==
    /\ handler[p].pc = "wd_commission"
    /\ CreateCommission(p, "WITHDRAWAL")

\* ------------------------------------------------------------------- deposit
\* DepositViewSet.create: the requester must be an agent; agent profile,
\* customer lookup and float check.
Deposit_create(p) ==
    /\ handler[p].pc = "idle"
    /\ \E requester \in Users, customer_phone \in Phones, amount \in Amounts :
         LET h0 == [handler[p] EXCEPT !.kind = "DEPOSIT", !.user = requester,
                                       !.target = customer_phone, !.amount = amount]
             agent_number == CHOOSE a \in AgentNumbers : agents[a].user = requester
         IN  IF user_type[requester] \notin {"AGENT", "SUPER_AGENT"}
             THEN Set(p, Respond(h0, "403"))
             ELSE IF customer_phone \notin Users
             THEN Set(p, Respond(h0, "404"))
             ELSE IF agents[agent_number].float_balance < amount
             THEN Set(p, Respond(h0, "400"))
             ELSE Set(p, [h0 EXCEPT !.pc = "dp_wallet", !.agent_number = agent_number,
                                    !.agent = agents[agent_number]])
    /\ UNCHANGED dbVars

\* customer.wallet and the commission on the amount.
Deposit_wallet(p) ==
    LET h == handler[p]
    IN  /\ h.pc = "dp_wallet"
        /\ Set(p, [h EXCEPT !.pc = "dp_credit", !.total_amount = h.amount,
                            !.commission = RoundHalfEven(h.amount * h.agent.commission_rate, 100),
                            !.other_balance = walletBalance[h.target],
                            !.other_before = walletBalance[h.target]])
        /\ UNCHANGED dbVars

\* Add to customer.
Deposit_credit(p) ==
    /\ handler[p].pc = "dp_credit"
    /\ CreditOtherWallet(p, handler[p].target, "dp_float")

\* Update agent float.
Deposit_float(p) ==
    /\ handler[p].pc = "dp_float"
    /\ SaveAgentFloat(p, "dp_record")

\* Deposit.objects.create(...) under the id of generate_transaction_id('DP').
Deposit_record(p) ==
    LET h == handler[p]
    IN  /\ h.pc = "dp_record"
        /\ \E transaction_id \in generate_transaction_id("DP") :
             LET row == [transaction_id |-> transaction_id, customer |-> h.target,
                         agent |-> h.agent_number, amount |-> h.amount,
                         customer_balance_before |-> h.other_before,
                         customer_balance_after |-> h.other_after,
                         agent_commission |-> h.commission, status |-> "COMPLETED"]
                 h1 == [h EXCEPT !.transaction_id = transaction_id]
             IN  IF KeyTaken(deposits, transaction_id)
                 THEN /\ Set(p, Respond(h1, "500"))
                      /\ UNCHANGED deposits
                 ELSE /\ deposits' = deposits \cup {row}
                      /\ Set(p, [h1 EXCEPT !.pc = "dp_ledger", !.rows = @ + 1])
        /\ UNCHANGED <<balanceVars, configVars, loanVars, sendMoney, withdrawals, payBills, buyGoods,
                       airtimePurchases, walletTransactions, commissions>>

\* The customer's WalletTransaction.
Deposit_ledger(p) ==
    LET h == handler[p]
    IN  /\ h.pc = "dp_ledger"
        /\ CreateWalletTransaction(p, h.target, "DEPOSIT", h.amount, h.other_before,
                                   h.other_after, "dp_commission", "")

\* Record commission.
Deposit_commission(p) ==
    /\ handler[p].pc = "dp_commission"
    /\ CreateCommission(p, "DEPOSIT")

\* ------------------------------------------------------ pay bill, buy goods
\* PayBillViewSet.create and BuyGoodsViewSet.create differ in the merchant
\* type they look up, the charge kind, the id prefix and the table.
\* Merchant lookup (type and status ACTIVE), payer wallet load, charge and
\* balance check.
MerchantPayment_create(p, kind, merchant_type) ==
    /\ handler[p].pc = "idle"
    /\ \E payer \in Users, business_number \in BusinessNumbers, amount \in Amounts :
         LET charge == get_transaction_charge(kind, amount)
             total_amount == amount + charge
             h0 == [handler[p] EXCEPT !.kind = kind, !.user = payer,
                                       !.target = business_number, !.amount = amount]
         IN  IF \/ merchants[business_number].merchant_type # merchant_type
                \/ merchants[business_number].status # "ACTIVE"
             THEN Set(p, Respond(h0, "404"))
             ELSE IF MultipleObjectsReturned(kind, amount)
             THEN Set(p, Respond(h0, "500"))
             ELSE IF ~can_transact(walletActive[payer], walletBalance[payer], total_amount)
             THEN Set(p, Respond(h0, "400"))
             ELSE Set(p, [h0 EXCEPT !.pc = "mp_debit", !.charge = charge,
                                    !.total_amount = total_amount,
                                    !.wallet_balance = walletBalance[payer]])
    /\ UNCHANGED dbVars

\* Deduct from payer / buyer.
MerchantPayment_debit(p, kind) ==
    /\ handler[p].pc = "mp_debit"
    /\ handler[p].kind = kind
    /\ DebitWallet(p, "mp_load")

\* merchant_wallet = merchant.user.wallet
MerchantPayment_load(p, kind) ==
    /\ handler[p].pc = "mp_load"
    /\ handler[p].kind = kind
    /\ LoadOtherWallet(p, merchants[handler[p].target].user, "mp_credit")

\* Add to merchant.
MerchantPayment_credit(p, kind) ==
    /\ handler[p].pc = "mp_credit"
    /\ handler[p].kind = kind
    /\ CreditOtherWallet(p, merchants[handler[p].target].user, "mp_record")

\* The row PayBill.objects.create / BuyGoods.objects.create inserts.
MerchantPaymentRow(h, transaction_id) ==
    [transaction_id |-> transaction_id, payer |-> h.user, merchant |-> h.target,
     amount |-> h.amount, charge |-> h.charge, total_amount |-> h.total_amount,
     payer_balance_before |-> h.balance_before,
     payer_balance_after |-> h.balance_after, status |-> "COMPLETED"]

\* The payer's WalletTransaction; the merchant's wallet gets none.
MerchantPayment_ledger(p, kind) ==
    LET h == handler[p]
    IN  /\ h.pc = "mp_ledger"
        /\ h.kind = kind
        /\ CreateWalletTransaction(p, h.user, kind, h.total_amount, h.balance_before,
                                   h.balance_after, "done", "201")

PayBill_create(p) == MerchantPayment_create(p, "PAYBILL", "PAYBILL")
PayBill_debit(p) == MerchantPayment_debit(p, "PAYBILL")
PayBill_load(p) == MerchantPayment_load(p, "PAYBILL")
PayBill_credit(p) == MerchantPayment_credit(p, "PAYBILL")

\* PayBill.objects.create(...) under the id of generate_transaction_id('PB').
PayBill_record(p) ==
    LET h == handler[p]
    IN  /\ h.pc = "mp_record"
        /\ h.kind = "PAYBILL"
        /\ \E transaction_id \in generate_transaction_id("PB") :
             LET h1 == [h EXCEPT !.transaction_id = transaction_id]
             IN  IF KeyTaken(payBills, transaction_id)
                 THEN /\ Set(p, Respond(h1, "500"))
                      /\ UNCHANGED payBills
                 ELSE /\ payBills' = payBills \cup {MerchantPaymentRow(h, transaction_id)}
                      /\ Set(p, [h1 EXCEPT !.pc = "mp_ledger", !.rows = @ + 1])
        /\ UNCHANGED <<balanceVars, configVars, loanVars, sendMoney, withdrawals, deposits, buyGoods,
                       airtimePurchases, walletTransactions, commissions>>

PayBill_ledger(p) == MerchantPayment_ledger(p, "PAYBILL")

BuyGoods_create(p) == MerchantPayment_create(p, "BUY_GOODS", "TILL")
BuyGoods_debit(p) == MerchantPayment_debit(p, "BUY_GOODS")
BuyGoods_load(p) == MerchantPayment_load(p, "BUY_GOODS")
BuyGoods_credit(p) == MerchantPayment_credit(p, "BUY_GOODS")

\* BuyGoods.objects.create(...) under the id of generate_transaction_id('BG').
BuyGoods_record(p) ==
    LET h == handler[p]
    IN  /\ h.pc = "mp_record"
        /\ h.kind = "BUY_GOODS"
        /\ \E transaction_id \in generate_transaction_id("BG") :
             LET h1 == [h EXCEPT !.transaction_id = transaction_id]
             IN  IF KeyTaken(buyGoods, transaction_id)
                 THEN /\ Set(p, Respond(h1, "500"))
                      /\ UNCHANGED buyGoods
                 ELSE /\ buyGoods' = buyGoods \cup {MerchantPaymentRow(h, transaction_id)}
                      /\ Set(p, [h1 EXCEPT !.pc = "mp_ledger", !.rows = @ + 1])
        /\ UNCHANGED <<balanceVars, configVars, loanVars, sendMoney, withdrawals, deposits, payBills,
                       airtimePurchases, walletTransactions, commissions>>

BuyGoods_ledger(p) == MerchantPayment_ledger(p, "BUY_GOODS")

\* ------------------------------------------------------------------- airtime
\* AirtimePurchaseViewSet.create: buyer wallet load and balance check; no
\* charge applies.
Airtime_create(p) ==
    /\ handler[p].pc = "idle"
    /\ \E buyer \in Users, amount \in Amounts :
         LET h0 == [handler[p] EXCEPT !.kind = "AIRTIME", !.user = buyer,
                                       !.amount = amount]
         IN  IF ~can_transact(walletActive[buyer], walletBalance[buyer], amount)
             THEN Set(p, Respond(h0, "400"))
             ELSE Set(p, [h0 EXCEPT !.pc = "at_debit", !.total_amount = amount,
                                    !.wallet_balance = walletBalance[buyer]])
    /\ UNCHANGED dbVars

\* Deduct from buyer.
Airtime_debit(p) ==
    /\ handler[p].pc = "at_debit"
    /\ DebitWallet(p, "at_record")

\* AirtimePurchase.objects.create(...) under the id of generate_transaction_id('AT').
Airtime_record(p) ==
    LET h == handler[p]
    IN  /\ h.pc = "at_record"
        /\ \E transaction_id \in generate_transaction_id("AT") :
             LET row == [transaction_id |-> transaction_id, buyer |-> h.user,
                         amount |-> h.amount,
                         buyer_balance_before |-> h.balance_before,
                         buyer_balance_after |-> h.balance_after, status |-> "COMPLETED"]
                 h1 == [h EXCEPT !.transaction_id = transaction_id]
             IN  IF KeyTaken(airtimePurchases, transaction_id)
                 THEN /\ Set(p, Respond(h1, "500"))
                      /\ UNCHANGED airtimePurchases
                 ELSE /\ airtimePurchases' = airtimePurchases \cup {row}
                      /\ Set(p, [h1 EXCEPT !.pc = "at_ledger", !.rows = @ + 1])
        /\ UNCHANGED <<balanceVars, configVars, loanVars, sendMoney, withdrawals, deposits, payBills,
                       buyGoods, walletTransactions, commissions>>

\* The buyer's WalletTransaction.
Airtime_ledger(p) ==
    LET h == handler[p]
    IN  /\ h.pc = "at_ledger"
        /\ CreateWalletTransaction(p, h.user, "AIRTIME", h.amount, h.balance_before,
                                   h.balance_after, "done", "201")

Next ==
    \E p \in Procs :
        \/ SendMoney_create(p)
        \/ SendMoney_debit(p)
        \/ SendMoney_load(p)
        \/ SendMoney_credit(p)
        \/ SendMoney_record(p)
        \/ SendMoney_ledger_sender(p)
        \/ SendMoney_ledger_receiver(p)
        \/ Withdrawal_create(p)
        \/ Withdrawal_wallet(p)
        \/ Withdrawal_debit(p)
        \/ Withdrawal_float(p)
        \/ Withdrawal_record(p)
        \/ Withdrawal_ledger(p)
        \/ Withdrawal_commission(p)
        \/ Deposit_create(p)
        \/ Deposit_wallet(p)
        \/ Deposit_credit(p)
        \/ Deposit_float(p)
        \/ Deposit_record(p)
        \/ Deposit_ledger(p)
        \/ Deposit_commission(p)
        \/ PayBill_create(p)
        \/ PayBill_debit(p)
        \/ PayBill_load(p)
        \/ PayBill_credit(p)
        \/ PayBill_record(p)
        \/ PayBill_ledger(p)
        \/ BuyGoods_create(p)
        \/ BuyGoods_debit(p)
        \/ BuyGoods_load(p)
        \/ BuyGoods_credit(p)
        \/ BuyGoods_record(p)
        \/ BuyGoods_ledger(p)
        \/ Airtime_create(p)
        \/ Airtime_debit(p)
        \/ Airtime_record(p)
        \/ Airtime_ledger(p)

Spec == Init /\ [][Next]_vars

\* ------------------------------------------------ transfers under fairness
\* The steps of a send-money request after its arrival.  The handler takes no
\* lock and waits for no other request: each statement is its own autocommit
\* database call.
SendMoney_step(p) ==
    \/ SendMoney_debit(p)
    \/ SendMoney_load(p)
    \/ SendMoney_credit(p)
    \/ SendMoney_record(p)
    \/ SendMoney_ledger_sender(p)
    \/ SendMoney_ledger_receiver(p)

TransferNext ==
    \E p \in Procs :
        \/ SendMoney_create(p)
        \/ SendMoney_debit(p)
        \/ SendMoney_load(p)
        \/ SendMoney_credit(p)
        \/ SendMoney_record(p)
        \/ SendMoney_ledger_sender(p)
        \/ SendMoney_ledger_receiver(p)

\* The server runs each request in a worker of its own, which the scheduler
\* keeps running: a request that can take its next step eventually takes it.
\* Nothing is assumed about the arrival of requests.
TransferSpec ==
    /\ Init
    /\ [][TransferNext]_vars
    /\ \A p \in Procs : WF_vars(SendMoney_step(p))

\* ===================================================================== loans
\* Loan products a request can name: LP1 is active, LP2 is not.
LoanProductIds == {"LP1", "LP2"}
\* Users who issue loan requests: the customer u1 and the administrator u4.
LoanRequesters == {"u1", "u4"}
\* Principals an application asks for, in cents: the ends of the products'
\* ranges and their neighbours outside.
Principals ==
    UNION {{loanProducts[id].min_amount - 1, loanProducts[id].min_amount,
            loanProducts[id].max_amount, loanProducts[id].max_amount + 1} :
           id \in DOMAIN loanProducts}
\* Amounts a repayment asks for, in half cents.
RepayAmounts == (-1) .. MaxRepay
\* The loan ids generate_transaction_id('LN') can return.
LoanIds == generate_transaction_id("LN")

\* principal * Decimal(str(interest_rate / 365 / 100)) * duration_days as a
\* fraction of a cent: the principal is in cents, the rate in hundredths of
\* a percent.  The daily rate is exact for rates that are multiples of 3.65.
InterestNumerator(principal, product) ==
    principal * product.interest_rate * product.duration_days
InterestDenominator == 365 * 100 * 100

\* interest_amount.quantize(Decimal('0.01')): the context's rounding, ties to
\* even.
interest_amount(principal, product) ==
    RoundHalfEven(InterestNumerator(principal, product), InterestDenominator)

\* (principal + interest_amount + facilitation_fee).quantize(Decimal('0.01')),
\* of the unrounded interest.
total_amount(principal, product) ==
    RoundHalfEven((principal + product.facilitation_fee) * InterestDenominator
                    + InterestNumerator(principal, product),
                  InterestDenominator)

\* LoanViewSet.get_queryset: the loans get_object can reach for a user.
VisibleLoans(user) ==
    {id \in DOMAIN loans : user_type[user] = "ADMIN" \/ loans[id].borrower = user}

\* The single-loan check reduced to the ACTIVE status alone.
HasActiveLoan_OnlyActiveStatus(user) ==
    \E id \in DOMAIN loans : /\ loans[id].borrower = user
                             /\ loans[id].status = "ACTIVE"

\* Loan.objects.filter(borrower=..., status__in=[...]).exists()
HasActiveLoan(user) ==
    \E id \in DOMAIN loans : /\ loans[id].borrower = user
                             /\ loans[id].status \in {"ACTIVE", "DISBURSED", "APPROVED"}

LoanInit ==
    /\ walletBalance = OpeningBalance
    /\ walletActive = [u \in Users |-> u # "u3"]
    /\ agents = [a \in AgentNumbers |->
                   [user |-> IF a = "A1" THEN "u2" ELSE "u3",
                    status |-> IF a = "A1" THEN "ACTIVE" ELSE "SUSPENDED",
                    float_balance |-> 1, commission_rate |-> 50]]
    /\ charges = {}
    /\ sendMoney = {}
    /\ withdrawals = {}
    /\ deposits = {}
    /\ payBills = {}
    /\ buyGoods = {}
    /\ airtimePurchases = {}
    /\ walletTransactions = {}
    /\ commissions = <<>>
    /\ backend \in Backends
    /\ loanProducts = [id \in LoanProductIds |->
                         [min_amount |-> 1, max_amount |-> MaxAmount, interest_rate |-> 365,
                          duration_days |-> 10, facilitation_fee |-> 0,
                          is_active |-> id = "LP1"]]
    /\ loans = <<>>
    /\ loanRepayments = {}
    /\ handler = [p \in Procs |-> IdleHandler]

\* ------------------------------------------------------------------- apply
\* LoanViewSet.create: product lookup, amount range, single-loan check.
Loan_create(p) ==
    /\ handler[p].pc = "idle"
    /\ \E borrower \in LoanRequesters, product_id \in LoanProductIds,
          principal_amount \in Principals :
         LET h0 == [handler[p] EXCEPT !.kind = "LOAN_APPLY", !.user = borrower,
                                      !.target = product_id, !.amount = principal_amount]
             product == loanProducts[product_id]
         IN  IF ~product.is_active
             THEN Set(p, Respond(h0, "404"))
             ELSE IF \/ principal_amount < product.min_amount
                     \/ principal_amount > product.max_amount
             THEN Set(p, Respond(h0, "400"))
             ELSE IF HasActiveLoan(borrower)
             THEN Set(p, Respond(h0, "400"))
             ELSE Set(p, [h0 EXCEPT !.pc = "ln_insert"])
    /\ UNCHANGED dbVars

\* Loan.objects.create(...) under the id of generate_transaction_id('LN');
\* loan_id is the primary key.
Loan_insert(p) ==
    LET h == handler[p]
        product == loanProducts[h.target]
    IN  /\ h.pc = "ln_insert"
        /\ \E loan_id \in LoanIds :
             LET row == [borrower |-> h.user, product |-> h.target,
                         principal_amount |-> h.amount,
                         interest_amount |-> interest_amount(h.amount, product),
                         facilitation_fee |-> product.facilitation_fee,
                         total_amount |-> total_amount(h.amount, product),
                         amount_paid |-> 0,
                         balance |-> total_amount(h.amount, product),
                         status |-> "PENDING", disbursed |-> FALSE]
                 h1 == [h EXCEPT !.loan_id = loan_id, !.loan = row]
             IN  IF loan_id \in DOMAIN loans
                 THEN /\ Set(p, Respond(h1, "500"))
                      /\ UNCHANGED loans
                 ELSE /\ loans' = (loan_id :> row) @@ loans
                      /\ Set(p, [Respond(h1, "201") EXCEPT !.rows = @ + 1])
        /\ UNCHANGED <<balanceVars, configVars, recordVars, backend, loanProducts,
                       loanRepayments>>

\* ----------------------------------------------------------------- approve
\* LoanViewSet.approve: IsAdminUser, get_object, the loan must be PENDING.
Loan_approve(p) ==
    /\ handler[p].pc = "idle"
    /\ \E user \in LoanRequesters, pk \in LoanIds :
         LET h0 == [handler[p] EXCEPT !.kind = "LOAN_APPROVE", !.user = user,
                                      !.loan_id = pk]
         IN  IF ~is_staff[user]
             THEN Set(p, Respond(h0, "403"))
             ELSE IF pk \notin VisibleLoans(user)
             THEN Set(p, Respond(h0, "404"))
             ELSE IF loans[pk].status # "PENDING"
             THEN Set(p, Respond([h0 EXCEPT !.loan = loans[pk]], "400"))
             ELSE Set(p, [h0 EXCEPT !.pc = "ap_wallet", !.loan = loans[pk],
                                    !.target = loans[pk].borrower,
                                    !.amount = loans[pk].principal_amount,
                                    !.total_amount = loans[pk].principal_amount,
                                    !.transaction_id = pk])
    /\ UNCHANGED dbVars

\* wallet = loan.borrower.wallet; balance_before = wallet.balance
Loan_approve_wallet(p) ==
    /\ handler[p].pc = "ap_wallet"
    /\ LoadOtherWallet(p, handler[p].target, "ap_credit")

\* wallet.balance += loan.principal_amount; wallet.save()
Loan_approve_credit(p) ==
    /\ handler[p].pc = "ap_credit"
    /\ CreditOtherWallet(p, handler[p].target, "ap_save")

\* loan.status = 'DISBURSED'; loan.disbursed_at = now; loan.save(): the whole
\* in-memory row is written back.
Loan_approve_save(p) ==
    LET h == handler[p]
        row == [h.loan EXCEPT !.status = "DISBURSED", !.disbursed = TRUE]
    IN  /\ h.pc = "ap_save"
        /\ loans' = [loans EXCEPT ![h.loan_id] = row]
        /\ Set(p, [h EXCEPT !.pc = "ap_ledger", !.loan = row])
        /\ UNCHANGED <<balanceVars, configVars, recordVars, backend, loanProducts,
                       loanRepayments>>

\* WalletTransaction.objects.create(transaction_id=loan.loan_id, ...)
Loan_approve_ledger(p) ==
    LET h == handler[p]
    IN  /\ h.pc = "ap_ledger"
        /\ CreateWalletTransaction(p, h.target, "DEPOSIT", h.amount, h.other_before,
                                   h.other_after, "done", "200")

\* ------------------------------------------------------------------- repay
\* LoanViewSet.repay: get_object, the loan must be ACTIVE or DISBURSED, the
\* amount is clamped to the loan's balance.  The amount is in half cents.
Loan_repay(p) ==
    /\ handler[p].pc = "idle"
    /\ \E user \in LoanRequesters, pk \in LoanIds, amount \in RepayAmounts :
         LET h0 == [handler[p] EXCEPT !.kind = "LOAN_REPAY", !.user = user,
                                      !.loan_id = pk, !.amount = amount]
         IN  IF pk \notin VisibleLoans(user)
             THEN Set(p, Respond(h0, "404"))
             ELSE IF loans[pk].status \notin {"ACTIVE", "DISBURSED"}
             THEN Set(p, Respond([h0 EXCEPT !.loan = loans[pk]], "400"))
             ELSE Set(p, [h0 EXCEPT !.pc = "rp_wallet", !.loan = loans[pk],
                                    !.target = loans[pk].borrower,
                                    !.total_amount =
                                        IF amount > Halves(loans[pk].balance)
                                        THEN Halves(loans[pk].balance) ELSE amount])
    /\ UNCHANGED dbVars

\* wallet = request.user.wallet; wallet.can_transact(amount) on the clamped
\* amount.
Loan_repay_wallet(p) ==
    LET h == handler[p]
    IN  /\ h.pc = "rp_wallet"
        /\ IF ~can_transact(walletActive[h.user], Halves(walletBalance[h.user]),
                            h.total_amount)
           THEN Set(p, Respond(h, "400"))
           ELSE Set(p, [h EXCEPT !.pc = "rp_debit",
                                 !.wallet_balance = walletBalance[h.user]])
        /\ UNCHANGED dbVars

\* wallet.balance -= amount; wallet.save().  balance_after keeps the
\* in-memory balance, in half cents.
Loan_repay_debit(p) ==
    LET h == handler[p]
        balance == Halves(h.wallet_balance) - h.total_amount
        stored == adapt_decimalfield_value(balance)
    IN  /\ h.pc = "rp_debit"
        /\ walletBalance' = [walletBalance EXCEPT ![h.user] = stored]
        /\ Set(p, [h EXCEPT !.pc = "rp_save",
                            !.balance_before = h.wallet_balance,
                            !.balance_after = balance,
                            !.mutated = TRUE,
                            !.effect[h.user] = @ + (stored - walletBalance[h.user])])
        /\ UNCHANGED <<agents, configVars, loanVars, recordVars>>

\* loan.amount_paid += amount; loan.balance -= amount; status PAID when the
\* in-memory balance is 0, else ACTIVE; loan.save() writes the whole row.
\* other_before / other_after keep the loan's balance around the update,
\* other_after in half cents.
Loan_repay_save(p) ==
    LET h == handler[p]
        amount_paid == Halves(h.loan.amount_paid) + h.total_amount
        balance == Halves(h.loan.balance) - h.total_amount
        row == [h.loan EXCEPT !.amount_paid = adapt_decimalfield_value(amount_paid),
                              !.balance = adapt_decimalfield_value(balance),
                              !.status = IF balance = 0 THEN "PAID" ELSE "ACTIVE"]
    IN  /\ h.pc = "rp_save"
        /\ loans' = [loans EXCEPT ![h.loan_id] = row]
        /\ Set(p, [h EXCEPT !.pc = "rp_record",
                            !.other_before = h.loan.balance,
                            !.other_after = balance])
        /\ UNCHANGED <<balanceVars, configVars, recordVars, backend, loanProducts,
                       loanRepayments>>

\* LoanRepayment.objects.create(...) under the id of
\* generate_transaction_id('LR').
Loan_repay_record(p) ==
    LET h == handler[p]
    IN  /\ h.pc = "rp_record"
        /\ \E transaction_id \in generate_transaction_id("LR") :
             LET row == [transaction_id |-> transaction_id, loan |-> h.loan_id,
                         amount |-> adapt_decimalfield_value(h.total_amount),
                         balance_before |-> h.other_before,
                         balance_after |-> adapt_decimalfield_value(h.other_after)]
                 h1 == [h EXCEPT !.transaction_id = transaction_id]
             IN  IF KeyTaken(loanRepayments, transaction_id)
                 THEN /\ Set(p, Respond(h1, "500"))
                      /\ UNCHANGED loanRepayments
                 ELSE /\ loanRepayments' = loanRepayments \cup {row}
                      /\ Set(p, [h1 EXCEPT !.pc = "rp_ledger", !.rows = @ + 1])
        /\ UNCHANGED <<balanceVars, configVars, recordVars, backend, loanProducts, loans>>

\* The payer's WalletTransaction.
Loan_repay_ledger(p) ==
    LET h == handler[p]
    IN  /\ h.pc = "rp_ledger"
        /\ CreateWalletTransaction(p, h.user, "PAYMENT",
                                   adapt_decimalfield_value(h.total_amount),
                                   h.balance_before,
                                   adapt_decimalfield_value(h.balance_after),
                                   "done", "200")

\* The process takes its next request.
Loan_next_request(p) ==
    /\ handler[p].pc = "done"
    /\ handler[p].served + 1 < MaxRequests
    /\ Set(p, [IdleHandler EXCEPT !.served = handler[p].served + 1])
    /\ UNCHANGED dbVars

LoanNext ==
    \E p \in Procs :
        \/ Loan_create(p)
        \/ Loan_insert(p)
        \/ Loan_approve(p)
        \/ Loan_approve_wallet(p)
        \/ Loan_approve_credit(p)
        \/ Loan_approve_save(p)
        \/ Loan_approve_ledger(p)
        \/ Loan_repay(p)
        \/ Loan_repay_wallet(p)
        \/ Loan_repay_debit(p)
        \/ Loan_repay_save(p)
        \/ Loan_repay_record(p)
        \/ Loan_repay_ledger(p)
        \/ Loan_next_request(p)

LoanSpec == LoanInit /\ [][LoanNext]_vars

\* The loan requests executed one at a time: a single worker process serves
\* one request after the other.
Worker == "p1"

Loan_worker_next_request(p) ==
    /\ handler[p].pc = "done"
    /\ handler[p].served + 1 < MaxSeqRequests
    /\ Set(p, [IdleHandler EXCEPT !.served = handler[p].served + 1])
    /\ UNCHANGED dbVars

LoanSeqNext ==
    \/ Loan_create(Worker)
    \/ Loan_insert(Worker)
    \/ Loan_approve(Worker)
    \/ Loan_approve_wallet(Worker)
    \/ Loan_approve_credit(Worker)
    \/ Loan_approve_save(Worker)
    \/ Loan_approve_ledger(Worker)
    \/ Loan_repay(Worker)
    \/ Loan_repay_wallet(Worker)
    \/ Loan_repay_debit(Worker)
    \/ Loan_repay_save(Worker)
    \/ Loan_repay_record(Worker)
    \/ Loan_repay_ledger(Worker)
    \/ Loan_worker_next_request(Worker)

LoanSeqSpec == LoanInit /\ [][LoanSeqNext]_vars

\* -------------------------------------------------------- update of a loan
\* LoanViewSet is a ModelViewSet: PUT/PATCH loans/<pk>/ is the inherited
\* update.  get_object() looks in get_queryset(); LoanApplicationSerializer
\* leaves principal_amount and product writable, and the model fields carry
\* no validator, so any principal and any product pass is_valid().
Loan_update(p) ==
    /\ handler[p].pc = "idle"
    /\ \E user \in LoanRequesters, pk \in LoanIds, principal_amount \in Principals,
          product_id \in LoanProductIds :
         LET h0 == [handler[p] EXCEPT !.kind = "LOAN_UPDATE", !.user = user,
                                      !.loan_id = pk, !.amount = principal_amount,
                                      !.target = product_id]
         IN  IF pk \notin VisibleLoans(user)
             THEN Set(p, Respond(h0, "404"))
             ELSE Set(p, [h0 EXCEPT !.pc = "lu_save", !.loan = loans[pk]])
    /\ UNCHANGED dbVars

\* serializer.save(): the validated fields are set on the instance and
\* instance.save() writes the whole row; interest_amount, total_amount and
\* balance keep the values Apply computed.
Loan_update_save(p) ==
    LET h == handler[p]
        row == [h.loan EXCEPT !.principal_amount = h.amount, !.product = h.target]
    IN  /\ h.pc = "lu_save"
        /\ loans' = (h.loan_id :> row) @@ loans
        /\ Set(p, [Respond(h, "200") EXCEPT !.loan = row, !.mutated = TRUE])
        /\ UNCHANGED <<balanceVars, configVars, recordVars, backend, loanProducts,
                       loanRepayments>>

\* Apply, update and approve served one at a time by the worker.
LoanUpdateNext ==
    \/ Loan_create(Worker)
    \/ Loan_insert(Worker)
    \/ Loan_update(Worker)
    \/ Loan_update_save(Worker)
    \/ Loan_approve(Worker)
    \/ Loan_approve_wallet(Worker)
    \/ Loan_approve_credit(Worker)
    \/ Loan_approve_save(Worker)
    \/ Loan_approve_ledger(Worker)
    \/ Loan_worker_next_request(Worker)

LoanUpdateSpec == LoanInit /\ [][LoanUpdateNext]_vars

\* ------------------------------------------------- all requests in sequence
\* The transaction requests and the loan requests served one at a time by the
\* single worker, over the charge bands of Init and the loan products of
\* LoanInit.  The worker serves as many requests, one after the other, as the
\* processes of Spec serve side by side.
SeqRequests == Cardinality(Procs)

\* The loan of an application of u1 for the least principal of product LP1
\* that the administrator has approved, and the ledger entry of its
\* disbursement.
DisbursedLoanId == <<"LN", 1>>
DisbursedLoan(product) ==
    [borrower |-> "u1", product |-> "LP1",
     principal_amount |-> product.min_amount,
     interest_amount |-> interest_amount(product.min_amount, product),
     facilitation_fee |-> product.facilitation_fee,
     total_amount |-> total_amount(product.min_amount, product),
     amount_paid |-> 0,
     balance |-> total_amount(product.min_amount, product),
     status |-> "DISBURSED", disbursed |-> TRUE]
DisbursementEntry(product) ==
    [transaction_id |-> DisbursedLoanId, wallet |-> "u1", transaction_type |-> "DEPOSIT",
     amount |-> product.min_amount, balance_before |-> OpeningBalance["u1"],
     balance_after |-> OpeningBalance["u1"] + product.min_amount, status |-> "COMPLETED"]

\* The database is either fresh or holds that one disbursed loan.
SeqInit ==
    /\ walletActive = [u \in Users |-> u # "u3"]
    /\ agents = [a \in AgentNumbers |->
                   [user |-> IF a = "A1" THEN "u2" ELSE "u3",
                    status |-> IF a = "A1" THEN "ACTIVE" ELSE "SUSPENDED",
                    float_balance |-> 1, commission_rate |-> 50]]
    /\ charges = {[id |-> 1, transaction_type |-> "SEND_MONEY", min_amount |-> 1,
                   max_amount |-> 3, charge |-> 1, is_active |-> TRUE],
                  [id |-> 2, transaction_type |-> "WITHDRAWAL", min_amount |-> 1,
                   max_amount |-> 3, charge |-> 1, is_active |-> TRUE],
                  [id |-> 3, transaction_type |-> "PAYBILL", min_amount |-> 1,
                   max_amount |-> 3, charge |-> 1, is_active |-> TRUE]}
    /\ sendMoney = {}
    /\ withdrawals = {}
    /\ deposits = {}
    /\ payBills = {}
    /\ buyGoods = {}
    /\ airtimePurchases = {}
    /\ commissions = <<>>
    /\ backend \in Backends
    /\ loanProducts = [id \in LoanProductIds |->
                         [min_amount |-> 1, max_amount |-> MaxAmount, interest_rate |-> 365,
                          duration_days |-> 10, facilitation_fee |-> 0,
                          is_active |-> id = "LP1"]]
    /\ \/ /\ loans = <<>>
          /\ walletBalance = OpeningBalance
          /\ walletTransactions = {}
       \/ /\ loans = (DisbursedLoanId :> DisbursedLoan(loanProducts["LP1"]))
          /\ walletBalance = [OpeningBalance EXCEPT !["u1"] = @ + loanProducts["LP1"].min_amount]
          /\ walletTransactions = {DisbursementEntry(loanProducts["LP1"])}
    /\ loanRepayments = {}
    /\ handler = [p \in Procs |-> IdleHandler]

\* The worker takes its next request once the last one has responded.
Seq_next_request(p) ==
    /\ handler[p].pc = "done"
    /\ handler[p].served + 1 < SeqRequests
    /\ Set(p, [IdleHandler EXCEPT !.served = handler[p].served + 1])
    /\ UNCHANGED dbVars

SeqNext ==
    \/ SendMoney_create(Worker)
    \/ SendMoney_debit(Worker)
    \/ SendMoney_load(Worker)
    \/ SendMoney_credit(Worker)
    \/ SendMoney_record(Worker)
    \/ SendMoney_ledger_sender(Worker)
    \/ SendMoney_ledger_receiver(Worker)
    \/ Withdrawal_create(Worker)
    \/ Withdrawal_wallet(Worker)
    \/ Withdrawal_debit(Worker)
    \/ Withdrawal_float(Worker)
    \/ Withdrawal_record(Worker)
    \/ Withdrawal_ledger(Worker)
    \/ Withdrawal_commission(Worker)
    \/ Deposit_create(Worker)
    \/ Deposit_wallet(Worker)
    \/ Deposit_credit(Worker)
    \/ Deposit_float(Worker)
    \/ Deposit_record(Worker)
    \/ Deposit_ledger(Worker)
    \/ Deposit_commission(Worker)
    \/ PayBill_create(Worker)
    \/ PayBill_debit(Worker)
    \/ PayBill_load(Worker)
    \/ PayBill_credit(Worker)
    \/ PayBill_record(Worker)
    \/ PayBill_ledger(Worker)
    \/ BuyGoods_create(Worker)
    \/ BuyGoods_debit(Worker)
    \/ BuyGoods_load(Worker)
    \/ BuyGoods_credit(Worker)
    \/ BuyGoods_record(Worker)
    \/ BuyGoods_ledger(Worker)
    \/ Airtime_create(Worker)
    \/ Airtime_debit(Worker)
    \/ Airtime_record(Worker)
    \/ Airtime_ledger(Worker)
    \/ Loan_create(Worker)
    \/ Loan_insert(Worker)
    \/ Loan_approve(Worker)
    \/ Loan_approve_wallet(Worker)
    \/ Loan_approve_credit(Worker)
    \/ Loan_approve_save(Worker)
    \/ Loan_approve_ledger(Worker)
    \/ Loan_repay(Worker)
    \/ Loan_repay_wallet(Worker)
    \/ Loan_repay_debit(Worker)
    \/ Loan_repay_save(Worker)
    \/ Loan_repay_record(Worker)
    \/ Loan_repay_ledger(Worker)
    \/ Seq_next_request(Worker)

SeqSpec == SeqInit /\ [][SeqNext]_vars

\* ================================================================ loan terms
\* Product terms the loan-terms specification draws from: annual rates in
\* hundredths of a percent (multiples of 3.65, so that the daily rate is
\* exact), durations in days, facilitation fees and the principal range in
\* cents.
TermsRates == {365, 730, 1095}
TermsDurations == {10, 20, 30}
TermsFees == {0, 25, 50}
TermsMinAmount == 100
TermsMaxAmount == 500

TermsInit ==
    /\ walletBalance = OpeningBalance
    /\ walletActive = [u \in Users |-> u # "u3"]
    /\ agents = [a \in AgentNumbers |->
                   [user |-> IF a = "A1" THEN "u2" ELSE "u3",
                    status |-> IF a = "A1" THEN "ACTIVE" ELSE "SUSPENDED",
                    float_balance |-> 1, commission_rate |-> 50]]
    /\ charges = {}
    /\ sendMoney = {}
    /\ withdrawals = {}
    /\ deposits = {}
    /\ payBills = {}
    /\ buyGoods = {}
    /\ airtimePurchases = {}
    /\ walletTransactions = {}
    /\ commissions = <<>>
    /\ backend \in Backends
    /\ \E rate \in TermsRates, days \in TermsDurations, fee \in TermsFees :
         loanProducts = [id \in LoanProductIds |->
                           [min_amount |-> TermsMinAmount, max_amount |-> TermsMaxAmount,
                            interest_rate |-> rate, duration_days |-> days,
                            facilitation_fee |-> fee, is_active |-> id = "LP1"]]
    /\ loans = <<>>
    /\ loanRepayments = {}
    /\ handler = [p \in Procs |-> IdleHandler]

\* LoanProductViewSet.calculate_repayment: IsAdminUser, get_object over the
\* active products, the range check, then the quoted terms.
LoanProduct_calculate_repayment(p) ==
    /\ handler[p].pc = "idle"
    /\ \E user \in LoanRequesters, pk \in LoanProductIds, principal \in Principals :
         LET h0 == [handler[p] EXCEPT !.kind = "LOAN_TERMS", !.user = user,
                                      !.target = pk, !.amount = principal]
             product == loanProducts[pk]
             quote == [NoLoan EXCEPT !.product = pk,
                                     !.principal_amount = principal,
                                     !.interest_amount = interest_amount(principal, product),
                                     !.facilitation_fee = product.facilitation_fee,
                                     !.total_amount = total_amount(principal, product)]
         IN  IF ~is_staff[user]
             THEN Set(p, Respond(h0, "403"))
             ELSE IF ~product.is_active
             THEN Set(p, Respond(h0, "404"))
             ELSE IF \/ principal < product.min_amount
                     \/ principal > product.max_amount
             THEN Set(p, Respond(h0, "400"))
             ELSE Set(p, Respond([h0 EXCEPT !.loan = quote], "200"))
    /\ UNCHANGED dbVars

TermsNext ==
    \E p \in Procs :
        \/ Loan_create(p)
        \/ Loan_insert(p)
        \/ LoanProduct_calculate_repayment(p)

TermsSpec == TermsInit /\ [][TermsNext]_vars

\* ===================================================== transaction id format
\* generate_transaction_id as the string it returns.  The other
\* specifications keep an id as the pair of its prefix and its random part;
\* here the characters are kept, so that the length is that of the code's
\* string.
\* CharField(max_length=20) of the transaction_id and loan_id columns.
max_length == 20

\* The prefixes the handlers pass, and the default.
IdPrefixes == {"SM", "WD", "DP", "PB", "BG", "AT", "LN", "LR", "TXN"}
\* Clock readings of datetime.now(): the ends of each field's range.
ClockYears == {2024, 9999}
ClockMonths == {1, 12}
ClockDays == {1, 31}
ClockHours == {0, 23}
ClockMinutes == {0, 59}
ClockSeconds == {0, 59}
\* The first 24 bits of uuid.uuid4(): the least, the greatest, one between.
UuidHeads == {0, 11256099, 16777215}

DecimalDigit(n) == <<"0", "1", "2", "3", "4", "5", "6", "7", "8", "9">>[n + 1]
\* strftime's zero-padded decimal fields (%Y of a four-digit year, %m, %d,
\* %H, %M, %S).
RECURSIVE ZeroPadded(_, _)
ZeroPadded(n, width) ==
    IF width = 0 THEN "" ELSE ZeroPadded(n \div 10, width - 1) \o DecimalDigit(n % 10)

\* datetime.now().strftime('%Y%m%d%H%M%S')
strftime(year, month, day, hour, minute, second) ==
    ZeroPadded(year, 4) \o ZeroPadded(month, 2) \o ZeroPadded(day, 2)
        \o ZeroPadded(hour, 2) \o ZeroPadded(minute, 2) \o ZeroPadded(second, 2)

\* A digit of UUID.hex, lower case.
HexDigit(n) ==
    <<"0", "1", "2", "3", "4", "5", "6", "7", "8", "9", "a", "b", "c", "d", "e", "f">>[n + 1]
\* str.upper() on a hex digit.
upper(c) ==
    CASE c = "a" -> "A" [] c = "b" -> "B" [] c = "c" -> "C"
      [] c = "d" -> "D" [] c = "e" -> "E" [] c = "f" -> "F" [] OTHER -> c
\* uuid.uuid4().hex[:6].upper(): the first width hex digits of the uuid.
RECURSIVE HexHead(_, _)
HexHead(n, width) ==
    IF width = 0 THEN "" ELSE HexHead(n \div 16, width - 1) \o upper(HexDigit(n % 16))

\* f"{prefix}{timestamp}{uuid.uuid4().hex[:6].upper()}"
transaction_id_string(prefix, timestamp, head) == prefix \o timestamp \o HexHead(head, 6)

\* One call of generate_transaction_id; the id stays with the caller.
GenerateTransactionId(p) ==
    /\ handler[p].pc = "idle"
    /\ \E prefix \in IdPrefixes, year \in ClockYears, month \in ClockMonths,
          day \in ClockDays, hour \in ClockHours, minute \in ClockMinutes,
          second \in ClockSeconds, head \in UuidHeads :
         Set(p, [handler[p] EXCEPT
                   !.kind = "GENERATE_ID", !.pc = "done",
                   !.transaction_id =
                       transaction_id_string(prefix,
                           strftime(year, month, day, hour, minute, second), head)])
    /\ UNCHANGED dbVars

IdNext == GenerateTransactionId(Worker)

IdSpec == Init /\ [][IdNext]_vars

\* ============================================================ charge lookup
\* Band configurations the charge-lookup specification draws from: limits and
\* charges in cents, two transaction kinds, active and inactive bands.
BandLimits == 1 .. (MaxAmount + 1)
BandCharges == {1, 2}
BandKinds == {"SEND_MONEY", "WITHDRAWAL"}
\* Amounts a charge calculation asks about, in cents.
ChargeAmounts == 0 .. (MaxAmount + 2)

\* The TransactionCharge rows that can be stored under primary key id.
Bands(id) ==
    {b \in [id : {id}, transaction_type : BandKinds, min_amount : BandLimits,
            max_amount : BandLimits, charge : BandCharges, is_active : BOOLEAN] :
        b.min_amount <= b.max_amount}

\* The table holds no band, one band or two bands.
ChargeInit ==
    /\ walletBalance = OpeningBalance
    /\ walletActive = [u \in Users |-> u # "u3"]
    /\ agents = [a \in AgentNumbers |->
                   [user |-> IF a = "A1" THEN "u2" ELSE "u3",
                    status |-> IF a = "A1" THEN "ACTIVE" ELSE "SUSPENDED",
                    float_balance |-> 1, commission_rate |-> 50]]
    /\ \E first \in Bands(1), second \in Bands(2) :
         charges \in {{}, {first}, {first, second}}
    /\ sendMoney = {}
    /\ withdrawals = {}
    /\ deposits = {}
    /\ payBills = {}
    /\ buyGoods = {}
    /\ airtimePurchases = {}
    /\ walletTransactions = {}
    /\ commissions = <<>>
    /\ backend = "sqlite"
    /\ loanProducts = <<>>
    /\ loans = <<>>
    /\ loanRepayments = {}
    /\ handler = [p \in Procs |-> IdleHandler]

\* TransactionChargeViewSet.calculate_charge: IsAdminUser, then
\* get_transaction_charge; objects.get raises MultipleObjectsReturned, which
\* is not caught, when more than one band matches.
TransactionCharge_calculate_charge(p) ==
    /\ handler[p].pc = "idle"
    /\ \E user \in LoanRequesters, transaction_type \in BandKinds,
          amount \in ChargeAmounts :
         LET h0 == [handler[p] EXCEPT !.kind = "CHARGE", !.user = user,
                                      !.target = transaction_type, !.amount = amount]
         IN  IF ~is_staff[user]
             THEN Set(p, Respond(h0, "403"))
             ELSE IF MultipleObjectsReturned(transaction_type, amount)
             THEN Set(p, Respond(h0, "500"))
             ELSE Set(p, Respond([h0 EXCEPT
                                     !.charge = get_transaction_charge(transaction_type, amount),
                                     !.total_amount =
                                         amount + get_transaction_charge(transaction_type, amount)],
                                 "200"))
    /\ UNCHANGED dbVars

ChargeNext == \E p \in Procs : TransactionCharge_calculate_charge(p)

ChargeSpec == ChargeInit /\ [][ChargeNext]_vars

\* ======================================================= charge band requests
\* TransactionChargeViewSet is a ModelViewSet: create, update and destroy are
\* open to staff users (get_permissions).  TransactionChargeSerializer checks
\* each field on its own: nothing compares a band with the bands stored.
\* The id an insert receives: one more than every id used so far.  Each
\* process serves one request here, so the ids used are the three initial
\* ones, those stored and those the handlers have inserted.
NextBandId ==
    LET used == {3} \cup {c.id : c \in charges} \cup {handler[q].band.id : q \in Procs}
    IN  1 + (CHOOSE n \in used : \A m \in used : m <= n)

\* The rows an update request can turn a stored row into.
BandUpdates(row) ==
    {[row EXCEPT !.is_active = a] : a \in BOOLEAN}
        \cup {[row EXCEPT !.charge = c] : c \in BandCharges}
        \cup {[row EXCEPT !.max_amount = m] : m \in BandLimits}

\* POST transaction-charges/: serializer.save() inserts the row.
TransactionCharge_create(p) ==
    /\ handler[p].pc = "idle"
    /\ \E user \in LoanRequesters, row \in Bands(NextBandId) :
         LET h0 == [IdleHandler EXCEPT !.kind = "CHARGE_CREATE", !.user = user]
         IN  IF ~is_staff[user]
             THEN /\ Set(p, Respond(h0, "403"))
                  /\ UNCHANGED charges
             ELSE /\ charges' = charges \cup {row}
                  /\ Set(p, Respond([h0 EXCEPT !.band = row], "201"))
    /\ UNCHANGED <<balanceVars, walletActive, recordVars, loanVars>>

\* PUT / PATCH transaction-charges/<pk>/: get_object, then the serializer
\* sets the fields on the loaded object.
TransactionCharge_update(p) ==
    /\ handler[p].pc = "idle"
    /\ \E user \in LoanRequesters, pk \in 1 .. NextBandId :
         LET h0 == [IdleHandler EXCEPT !.kind = "CHARGE_UPDATE", !.user = user]
             stored == {c \in charges : c.id = pk}
         IN  IF ~is_staff[user]
             THEN Set(p, Respond(h0, "403"))
             ELSE IF stored = {}
             THEN Set(p, Respond(h0, "404"))
             ELSE \E row \in stored : \E changed \in BandUpdates(row) :
                      Set(p, [h0 EXCEPT !.pc = "tc_save", !.band = changed])
    /\ UNCHANGED dbVars

\* The save followed by a re-pricing of the stored send-money records of the
\* band's kind.
TransactionCharge_update_save_RepricesRecords(p) ==
    LET h == handler[p]
    IN  /\ h.pc = "tc_save"
        /\ charges' = {c \in charges : c.id # h.band.id} \cup {h.band}
        /\ sendMoney' = {IF h.band.transaction_type = "SEND_MONEY"
                         THEN [r EXCEPT !.charge = h.band.charge,
                                        !.total_amount = r.amount + h.band.charge]
                         ELSE r : r \in sendMoney}
        /\ Set(p, Respond(h, "200"))
        /\ UNCHANGED <<balanceVars, walletActive, loanVars, withdrawals, deposits, payBills,
                       buyGoods, airtimePurchases, walletTransactions, commissions>>

\* instance.save(): the whole in-memory row is written under its id; a row
\* deleted in the meantime is inserted again.
TransactionCharge_update_save(p) ==
    LET h == handler[p]
    IN  /\ h.pc = "tc_save"
        /\ charges' = {c \in charges : c.id # h.band.id} \cup {h.band}
        /\ Set(p, Respond(h, "200"))
        /\ UNCHANGED <<balanceVars, walletActive, recordVars, loanVars>>

\* DELETE transaction-charges/<pk>/: get_object.
TransactionCharge_destroy(p) ==
    /\ handler[p].pc = "idle"
    /\ \E user \in LoanRequesters, pk \in 1 .. NextBandId :
         LET h0 == [IdleHandler EXCEPT !.kind = "CHARGE_DESTROY", !.user = user]
             stored == {c \in charges : c.id = pk}
         IN  IF ~is_staff[user]
             THEN Set(p, Respond(h0, "403"))
             ELSE IF stored = {}
             THEN Set(p, Respond(h0, "404"))
             ELSE \E row \in stored : Set(p, [h0 EXCEPT !.pc = "tc_delete", !.band = row])
    /\ UNCHANGED dbVars

\* instance.delete(): the row of that id is removed, if it is still there.
TransactionCharge_destroy_delete(p) ==
    LET h == handler[p]
    IN  /\ h.pc = "tc_delete"
        /\ charges' = {c \in charges : c.id # h.band.id}
        /\ Set(p, Respond(h, "204"))
        /\ UNCHANGED <<balanceVars, walletActive, recordVars, loanVars>>

\* Charge band requests next to send-money requests, interleaved.
BandNext ==
    \E p \in Procs :
        \/ TransactionCharge_create(p)
        \/ TransactionCharge_update(p)
        \/ TransactionCharge_update_save(p)
        \/ TransactionCharge_destroy(p)
        \/ TransactionCharge_destroy_delete(p)
        \/ SendMoney_create(p)
        \/ SendMoney_debit(p)
        \/ SendMoney_load(p)
        \/ SendMoney_credit(p)
        \/ SendMoney_record(p)
        \/ SendMoney_ledger_sender(p)
        \/ SendMoney_ledger_receiver(p)

BandSpec == Init /\ [][BandNext]_vars

\* ------------------------------------------- requests on stored records
\* SendMoneyViewSet and WithdrawalViewSet are ModelViewSets: next to create
\* they serve PUT / PATCH and DELETE on <pk>/, the pk being the
\* transaction_id, for every authenticated user who sees the row.

\* SendMoneyViewSet.get_queryset.
SendMoney_get_queryset(user) ==
    {r \in sendMoney : \/ user_type[user] = "ADMIN"
                       \/ r.sender = user
                       \/ r.receiver = user}

\* WithdrawalViewSet.get_queryset.
Withdrawal_get_queryset(user) ==
    {r \in withdrawals :
        \/ user_type[user] = "ADMIN"
        \/ user_type[user] \in {"AGENT", "SUPER_AGENT"} /\ agents[r.agent].user = user
        \/ user_type[user] \notin {"ADMIN", "AGENT", "SUPER_AGENT"} /\ r.customer = user}

\* get_object of an update or a destroy: 404 when the queryset has no row of
\* that pk, else the row is loaded and the call goes on at nextpc.  amount is
\* the value of the request's writable amount field (0 for a DELETE, which
\* has none); the other writable field, failure_reason, is not part of the
\* modelled rows.
GetRecord(p, kind, user, visible, pk, amount, nextpc) ==
    LET h0 == [IdleHandler EXCEPT !.kind = kind, !.user = user, !.amount = amount,
                                  !.transaction_id = pk]
        found == {r \in visible : r.transaction_id = pk}
    IN  /\ IF found = {}
           THEN Set(p, Respond(h0, "404"))
           ELSE \E r \in found :
                   Set(p, [h0 EXCEPT !.pc = nextpc, !.record = r])
        /\ UNCHANGED dbVars

\* PUT / PATCH send-money/<pk>/ (UpdateModelMixin.update).
SendMoney_update(p) ==
    /\ handler[p].pc = "idle"
    /\ \E user \in Users, pk \in generate_transaction_id("SM"), amount \in Amounts :
          GetRecord(p, "SEND_MONEY_UPDATE", user, SendMoney_get_queryset(user), pk, amount,
                    "sm_update_save")

\* serializer.save() of the update: the amount is set on the loaded row and
\* instance.save() writes the row.
SendMoney_update_save(p) ==
    LET h == handler[p]
    IN  /\ h.pc = "sm_update_save"
        /\ sendMoney' = {r \in sendMoney : r.transaction_id # h.record.transaction_id}
                            \cup {[h.record EXCEPT !.amount = h.amount]}
        /\ Set(p, Respond(h, "200"))
        /\ UNCHANGED <<balanceVars, configVars, loanVars, withdrawals, deposits, payBills,
                       buyGoods, airtimePurchases, walletTransactions, commissions>>

\* DELETE send-money/<pk>/ (DestroyModelMixin.destroy).
SendMoney_destroy(p) ==
    /\ handler[p].pc = "idle"
    /\ \E user \in Users, pk \in generate_transaction_id("SM") :
          GetRecord(p, "SEND_MONEY_DESTROY", user, SendMoney_get_queryset(user), pk, 0, "sm_delete")

\* instance.delete().
SendMoney_destroy_delete(p) ==
    LET h == handler[p]
    IN  /\ h.pc = "sm_delete"
        /\ sendMoney' = {r \in sendMoney : r.transaction_id # h.record.transaction_id}
        /\ Set(p, Respond(h, "204"))
        /\ UNCHANGED <<balanceVars, configVars, loanVars, withdrawals, deposits, payBills,
                       buyGoods, airtimePurchases, walletTransactions, commissions>>

\* PUT / PATCH withdrawals/<pk>/.
Withdrawal_update(p) ==
    /\ handler[p].pc = "idle"
    /\ \E user \in Users, pk \in generate_transaction_id("WD"), amount \in Amounts :
          GetRecord(p, "WITHDRAWAL_UPDATE", user, Withdrawal_get_queryset(user), pk, amount,
                    "wd_update_save")

\* serializer.save() of the update.
Withdrawal_update_save(p) ==
    LET h == handler[p]
    IN  /\ h.pc = "wd_update_save"
        /\ withdrawals' = {r \in withdrawals : r.transaction_id # h.record.transaction_id}
                              \cup {[h.record EXCEPT !.amount = h.amount]}
        /\ Set(p, Respond(h, "200"))
        /\ UNCHANGED <<balanceVars, configVars, loanVars, sendMoney, deposits, payBills,
                       buyGoods, airtimePurchases, walletTransactions, commissions>>

\* DELETE withdrawals/<pk>/.
Withdrawal_destroy(p) ==
    /\ handler[p].pc = "idle"
    /\ \E user \in Users, pk \in generate_transaction_id("WD") :
          GetRecord(p, "WITHDRAWAL_DESTROY", user, Withdrawal_get_queryset(user), pk, 0, "wd_delete")

\* instance.delete(): Commission.transaction_id is a plain CharField, no
\* row of another table goes with the record.
Withdrawal_destroy_delete(p) ==
    LET h == handler[p]
    IN  /\ h.pc = "wd_delete"
        /\ withdrawals' = {r \in withdrawals : r.transaction_id # h.record.transaction_id}
        /\ Set(p, Respond(h, "204"))
        /\ UNCHANGED <<balanceVars, configVars, loanVars, sendMoney, deposits, payBills,
                       buyGoods, airtimePurchases, walletTransactions, commissions>>

\* Send-money and withdrawal requests next to updates and deletions of their
\* records, interleaved.
RecordNext ==
    \E p \in Procs :
        \/ SendMoney_create(p)
        \/ SendMoney_debit(p)
        \/ SendMoney_load(p)
        \/ SendMoney_credit(p)
        \/ SendMoney_record(p)
        \/ SendMoney_ledger_sender(p)
        \/ SendMoney_ledger_receiver(p)
        \/ Withdrawal_create(p)
        \/ Withdrawal_wallet(p)
        \/ Withdrawal_debit(p)
        \/ Withdrawal_float(p)
        \/ Withdrawal_record(p)
        \/ Withdrawal_ledger(p)
        \/ Withdrawal_commission(p)
        \/ SendMoney_update(p)
        \/ SendMoney_update_save(p)
        \/ SendMoney_destroy(p)
        \/ SendMoney_destroy_delete(p)
        \/ Withdrawal_update(p)
        \/ Withdrawal_update_save(p)
        \/ Withdrawal_destroy(p)
        \/ Withdrawal_destroy_delete(p)

RecordSpec == Init /\ [][RecordNext]_vars

\* ------------------------------------------------------- requests on users
\* UserViewSet is a ModelViewSet over User.objects.all(); every action but
\* create asks for IsAuthenticated and nothing more.  The users that exist
\* are those that have a wallet row.
RegisteredUsers == DOMAIN walletBalance

Restrict(f, keys) == [k \in keys |-> f[k]]

\* DELETE users/<pk>/: authentication of the requester, then get_object.
User_destroy(p) ==
    /\ handler[p].pc = "idle"
    /\ \E user \in Users, pk \in Users :
         LET h0 == [IdleHandler EXCEPT !.kind = "USER_DESTROY", !.user = user, !.target = pk]
         IN  IF user \notin RegisteredUsers
             THEN Set(p, Respond(h0, "401"))
             ELSE IF pk \notin RegisteredUsers
             THEN Set(p, Respond(h0, "404"))
             ELSE Set(p, [h0 EXCEPT !.pc = "user_delete",
                                    !.wallet_balance = walletBalance[pk]])
    /\ UNCHANGED dbVars

\* instance.delete(): the user row goes, and with it every row that refers
\* to it with on_delete=CASCADE: the wallet (whatever its balance) with its
\* ledger entries, the agent profile with its withdrawals and deposits, the
\* user's transaction records, commissions and loans with their repayments.
User_destroy_delete(p) ==
    LET h == handler[p]
        pk == h.target
        remaining == RegisteredUsers \ {pk}
        profiles == {a \in DOMAIN agents : agents[a].user = pk}
        kept == {id \in DOMAIN loans : loans[id].borrower # pk}
    IN  /\ h.pc = "user_delete"
        /\ walletBalance' = Restrict(walletBalance, remaining)
        /\ walletActive' = Restrict(walletActive, remaining)
        /\ agents' = Restrict(agents, DOMAIN agents \ profiles)
        /\ sendMoney' = {r \in sendMoney : r.sender # pk /\ r.receiver # pk}
        /\ withdrawals' = {r \in withdrawals : r.customer # pk /\ r.agent \notin profiles}
        /\ deposits' = {r \in deposits : r.customer # pk /\ r.agent \notin profiles}
        /\ payBills' = {r \in payBills : r.payer # pk /\ merchants[r.merchant].user # pk}
        /\ buyGoods' = {r \in buyGoods : r.payer # pk /\ merchants[r.merchant].user # pk}
        /\ airtimePurchases' = {r \in airtimePurchases : r.buyer # pk}
        /\ walletTransactions' = {r \in walletTransactions : r.wallet # pk}
        /\ commissions' = SelectSeq(commissions, LAMBDA c : c.recipient # pk)
        /\ loans' = Restrict(loans, kept)
        /\ loanRepayments' = {r \in loanRepayments : r.loan \in kept}
        /\ Set(p, Respond(h, "204"))
        /\ UNCHANGED <<charges, backend, loanProducts>>

\* Deletions of users, interleaved.
UserNext ==
    \E p \in Procs :
        \/ User_destroy(p)
        \/ User_destroy_delete(p)

UserSpec == Init /\ [][UserNext]_vars

\* ------------------------------------------------------ requests on agents
\* AgentViewSet is a ModelViewSet over Agent.objects.all() with
\* IsAuthenticated.  AgentSerializer keeps float_balance read-only; status
\* and commission_rate are writable.
AgentStatuses == {"ACTIVE", "SUSPENDED"}

\* PUT / PATCH agents/<pk>/: get_object loads the whole row, the serializer
\* sets the status on the loaded object.
Agent_update(p) ==
    /\ handler[p].pc = "idle"
    /\ \E user \in Users, pk \in AgentInputs, status \in AgentStatuses :
         LET h0 == [IdleHandler EXCEPT !.kind = "AGENT_UPDATE", !.user = user,
                                       !.agent_number = pk]
         IN  IF pk \notin DOMAIN agents
             THEN Set(p, Respond(h0, "404"))
             ELSE Set(p, [h0 EXCEPT !.pc = "ag_save",
                                    !.agent = [agents[pk] EXCEPT !.status = status]])
    /\ UNCHANGED dbVars

\* instance.save(): every column of the row is written from the loaded
\* object, float_balance among them.
Agent_update_save(p) ==
    LET h == handler[p]
    IN  /\ h.pc = "ag_save"
        /\ agents' = [agents EXCEPT ![h.agent_number] = h.agent]
        /\ Set(p, Respond(h, "200"))
        /\ UNCHANGED <<walletBalance, configVars, recordVars, loanVars>>

\* Withdrawals next to updates of agents, interleaved.
AgentNext ==
    \E p \in Procs :
        \/ Agent_update(p)
        \/ Agent_update_save(p)
        \/ Withdrawal_create(p)
        \/ Withdrawal_wallet(p)
        \/ Withdrawal_debit(p)
        \/ Withdrawal_float(p)
        \/ Withdrawal_record(p)
        \/ Withdrawal_ledger(p)
        \/ Withdrawal_commission(p)

AgentSpec == Init /\ [][AgentNext]_vars

\* ================================================================== claims
DebitKinds == {"SEND_MONEY", "WITHDRAWAL", "PAYBILL", "BUY_GOODS", "AIRTIME"}
TransferKinds == {"SEND_MONEY", "PAYBILL", "BUY_GOODS"}
Rejections == {"400", "403", "404"}

\* The wallet a request of handler state h debits / credits.
SourceOf(h) == h.user
DestinationOf(h) ==
    IF h.kind \in {"SEND_MONEY", "DEPOSIT"} THEN h.target ELSE merchants[h.target].user

\* The change a request that reached its saves is meant to make to wallet w.
IntendedDelta(h, w) ==
    IF ~h.mutated THEN 0
    ELSE (IF h.kind \in DebitKinds /\ w = SourceOf(h) THEN 0 - h.total_amount ELSE 0)
         + (IF h.kind \in TransferKinds \cup {"DEPOSIT"} /\ w = DestinationOf(h)
            THEN h.amount ELSE 0)

RECURSIVE SumOver(_, _)
SumOver(f, S) ==
    IF S = {} THEN 0
    ELSE LET x == CHOOSE y \in S : TRUE IN f[x] + SumOver(f, S \ {x})

Quiescent == \A p \in Procs : handler[p].pc = "done"

\* The ledger entries recorded under a transaction id.
EntriesOf(transaction_id) ==
    {e \in walletTransactions : e.transaction_id = transaction_id}

\* The handler has inserted its transaction record and has returned.
Recorded(h) == h.pc = "done" /\ h.rows >= 1

\* Every request made so far asks for a positive amount.
AllPositive == \A p \in Procs : handler[p].pc = "idle" \/ handler[p].amount > 0

\* C1: in every reachable state every wallet's balance is >= 0.
C1_BalanceNonNegative == \A u \in Users : walletBalance[u] >= 0

\* C2: when the concurrent requests are all debits of positive amounts by
\* the same user and the opening balance cannot cover them all, the debits
\* that succeed are covered by the opening balance and the final balance is
\* the opening balance minus their totals.
C2_NoDoubleSpend ==
    \A u \in Users :
        ( /\ Quiescent
          /\ AllPositive
          /\ \A p \in Procs : /\ handler[p].kind \in DebitKinds
                              /\ handler[p].user = u
                              /\ handler[p].result \in {"201", "400"}
          /\ SumOver([p \in Procs |-> handler[p].amount], Procs) > OpeningBalance[u] )
        => LET succeeded == {p \in Procs : handler[p].result = "201"}
               spent == SumOver([p \in Procs |-> handler[p].total_amount], succeeded)
           IN  /\ spent <= OpeningBalance[u]
               /\ walletBalance[u] = OpeningBalance[u] - spent

\* C3: once the concurrent requests (of positive amounts) have returned,
\* each rejected or completed with its record written, every wallet holds
\* its opening balance plus every credit and minus every debit of the
\* requests that completed (no update is lost).
C3_NoLostUpdate ==
    ( /\ Quiescent
      /\ AllPositive
      /\ \A p \in Procs : handler[p].mutated => Recorded(handler[p]) ) =>
        \A w \in Users :
            walletBalance[w] = OpeningBalance[w]
                + SumOver([p \in Procs |-> IntendedDelta(handler[p], w)], Procs)

\* C4: a request (of a positive amount) that fails with a storage error
\* after its first balance mutation is rolled back: its saves have changed
\* no wallet balance and no float, and none of its rows exists.  Stated for
\* a request that runs alone.
C4_FailureRollsBack ==
    \A p \in Procs :
        ( /\ handler[p].result = "500"
          /\ handler[p].amount > 0
          /\ \A q \in Procs \ {p} : handler[q].pc = "idle" ) =>
            /\ handler[p].effect = ZeroEffect
            /\ handler[p].floatEffect = 0
            /\ handler[p].rows = 0

\* C5: every COMPLETED send-money record of a positive amount has
\* total = amount + fee, sender_balance_after = sender_balance_before - total and
\* receiver_balance_after = receiver_balance_before + amount, and when the
\* call that wrote it returns (no other request running) the live balances
\* of sender and receiver equal the recorded balance_after values.
C5_SendMoneySnapshots ==
    /\ \A r \in sendMoney :
         (r.status = "COMPLETED" /\ r.amount > 0) =>
            /\ r.charge = get_transaction_charge("SEND_MONEY", r.amount)
            /\ r.total_amount = r.amount + r.charge
            /\ r.sender_balance_after = r.sender_balance_before - r.total_amount
            /\ r.receiver_balance_after = r.receiver_balance_before + r.amount
    /\ \A p \in Procs :
         ( /\ handler[p].kind = "SEND_MONEY"
           /\ handler[p].amount > 0
           /\ Recorded(handler[p])
           /\ \A q \in Procs \ {p} : handler[q].pc = "idle" )
         => \E r \in sendMoney :
               /\ r.transaction_id = handler[p].transaction_id
               /\ walletBalance[r.sender] = r.sender_balance_after
               /\ walletBalance[r.receiver] = r.receiver_balance_after

C7_NonPositiveAmountRejected ==
    \A p \in Procs :
        (handler[p].pc # "idle" /\ handler[p].amount <= 0) =>
            /\ handler[p].pc = "done"
            /\ handler[p].result = "400"
            /\ ~handler[p].mutated

\* C8: a wallet-to-wallet transfer that succeeded (returned 201, or, for
\* send-money, wrote its COMPLETED record), among requests of positive
\* amounts, has debited the source wallet by
\* amount + fee, credited the destination wallet by amount and changed no
\* other wallet, so that all balances together fell by exactly the fee.
C8_TransferConservesValue ==
    \A p \in Procs :
        LET h == handler[p]
        IN  ( /\ h.kind \in TransferKinds
              /\ AllPositive
              /\ h.pc = "done"
              /\ (h.result = "201" \/ (h.kind = "SEND_MONEY" /\ h.rows >= 1)) )
            => /\ \A w \in Users : h.effect[w] = IntendedDelta(h, w)
               /\ SumOver(h.effect, Users) = 0 - h.charge

\* C9: every completed transaction, among requests of positive amounts, has
\* exactly one ledger entry under its id for each wallet it changed: the
\* debited wallet, and the credited wallet of a send-money, pay-bill,
\* buy-goods or deposit.
C9_OneLedgerEntryPerWallet ==
    \A p \in Procs :
        LET h == handler[p]
            touched == (IF h.kind \in DebitKinds THEN {SourceOf(h)} ELSE {})
                       \cup (IF h.kind \in TransferKinds \cup {"DEPOSIT"}
                             THEN {DestinationOf(h)} ELSE {})
        IN  (Recorded(h) /\ AllPositive) =>
              \A w \in touched :
                 Cardinality({e \in EntriesOf(h.transaction_id) : e.wallet = w}) = 1

\* C10: for every transaction id the deltas of its ledger entries sum to
\* zero once the fee is counted as retained by the system; stated for the
\* wallet-to-wallet transfers, whose value stays in wallets, among requests
\* of positive amounts.
C10_LedgerDeltasSumToZero ==
    \A p \in Procs :
        LET h == handler[p]
            entries == EntriesOf(h.transaction_id)
            delta == [e \in entries |-> e.balance_after - e.balance_before]
        IN  (Recorded(h) /\ h.kind \in TransferKinds /\ AllPositive)
            => SumOver(delta, entries) + h.charge = 0

\* A repayment of a positive amount has returned its response.
RepaidBy(p) ==
    /\ handler[p].kind = "LOAN_REPAY"
    /\ handler[p].pc = "done"
    /\ handler[p].result = "200"
    /\ handler[p].amount > 0

\* C11: the records a completed call has written balance exactly: the ledger
\* entry of a loan repayment (fee 0) has balance_after = balance_before -
\* amount, its repayment record has balance_after = balance_before - amount,
\* and the ledger entry of a loan disbursement has balance_after =
\* balance_before + amount.
C11_RecordsBalanceExactly ==
    /\ \A p \in Procs :
         RepaidBy(p) =>
            /\ \A e \in EntriesOf(handler[p].transaction_id) :
                  e.balance_after = e.balance_before - e.amount
            /\ \A r \in loanRepayments :
                  r.transaction_id = handler[p].transaction_id =>
                     r.balance_after = r.balance_before - r.amount
    /\ \A e \in walletTransactions :
         e.transaction_type = "DEPOSIT" => e.balance_after = e.balance_before + e.amount

\* amount_paid + balance == total_amount, and PAID iff balance == 0.
LoanBalanced(loan) ==
    /\ loan.amount_paid + loan.balance = loan.total_amount
    /\ (loan.status = "PAID") <=> (loan.balance = 0)

\* C12: every loan row an apply, approve or repay request has just written
\* (the repayment being of a positive amount) has amount_paid + balance =
\* total_amount, and status PAID exactly when its balance is 0.
C12_LoanAccountBalanced ==
    \A p \in Procs :
        LET h == handler[p]
        IN  /\ (h.kind = "LOAN_APPLY" /\ h.result = "201") => LoanBalanced(h.loan)
            /\ (h.kind = "LOAN_APPROVE" /\ h.pc = "ap_ledger")
                  => LoanBalanced(loans[h.loan_id])
            /\ (h.kind = "LOAN_REPAY" /\ h.amount > 0 /\ h.pc \in {"rp_record", "rp_ledger"})
                  => LoanBalanced(loans[h.loan_id])

\* Position of a status on the chain PENDING -> APPROVED -> DISBURSED ->
\* ACTIVE -> {PAID | DEFAULTED}; REJECTED is a final status beside it.
StatusRank(status) ==
    CASE status = "PENDING" -> 0
      [] status = "APPROVED" -> 1
      [] status = "DISBURSED" -> 2
      [] status = "ACTIVE" -> 3
      [] OTHER -> 4

FinalStatuses == {"PAID", "DEFAULTED", "REJECTED"}

\* Every repayment being served asks for a positive number of whole cents.
WholeCentRepayments ==
    \A p \in Procs :
        handler[p].kind = "LOAN_REPAY" => handler[p].amount > 0 /\ handler[p].amount % 2 = 0

\* C13: every change of a loan's status moves forward along PENDING ->
\* APPROVED -> DISBURSED -> ACTIVE -> {PAID | DEFAULTED}, REJECTED is entered
\* only from PENDING, and the status of a PAID, DEFAULTED or REJECTED loan is
\* never changed by an apply, approve or repay request.
C13_StatusFollowsLifecycle ==
    [][WholeCentRepayments =>
         \A id \in DOMAIN loans \cap DOMAIN loans' :
             loans'[id].status # loans[id].status =>
                 /\ loans[id].status \notin FinalStatuses
                 /\ StatusRank(loans'[id].status) > StatusRank(loans[id].status)
                 /\ loans'[id].status = "REJECTED" => loans[id].status = "PENDING"]_vars

OutstandingStatuses == {"APPROVED", "DISBURSED", "ACTIVE"}

\* C14: a borrower never holds more than one loan whose status is APPROVED,
\* DISBURSED or ACTIVE.
C14_SingleOutstandingLoan ==
    \A u \in Users :
        Cardinality({id \in DOMAIN loans :
                        /\ loans[id].borrower = u
                        /\ loans[id].status \in OutstandingStatuses}) <= 1

\* The conditions under which an application is to be accepted.
ApplyAcceptable(borrower, product_id, principal) ==
    /\ loanProducts[product_id].is_active
    /\ loanProducts[product_id].min_amount <= principal
    /\ principal <= loanProducts[product_id].max_amount
    /\ ~ \E id \in DOMAIN loans :
            /\ loans[id].borrower = borrower
            /\ loans[id].status \in {"ACTIVE", "DISBURSED", "APPROVED"}

\* C15: an application goes on to create a loan only when the product is
\* active, the principal lies within the product's range and the borrower has
\* no ACTIVE, DISBURSED or APPROVED loan; in every other case it answers with an
\* error and no loan is created. A loan that is created is PENDING with
\* amount_paid 0 and balance = total_amount, and loans are created by accepted
\* applications only.
C15_ApplyValidates ==
    [][/\ \A p \in Procs :
            LET h == handler[p]
                h1 == handler'[p]
            IN  /\ (h.pc = "idle" /\ h1.kind = "LOAN_APPLY") =>
                     /\ loans' = loans
                     /\ IF ApplyAcceptable(h1.user, h1.target, h1.amount)
                        THEN h1.pc = "ln_insert"
                        ELSE h1.pc = "done" /\ h1.result \in {"400", "404"}
                /\ (h.pc = "ln_insert" /\ h1.pc = "done") =>
                     IF h1.result = "201"
                     THEN /\ h1.loan_id \notin DOMAIN loans
                          /\ DOMAIN loans' = DOMAIN loans \cup {h1.loan_id}
                          /\ loans'[h1.loan_id].borrower = h.user
                          /\ loans'[h1.loan_id].status = "PENDING"
                          /\ loans'[h1.loan_id].amount_paid = 0
                          /\ loans'[h1.loan_id].balance = loans'[h1.loan_id].total_amount
                     ELSE loans' = loans
       /\ DOMAIN loans' # DOMAIN loans =>
            \E p \in Procs : handler[p].pc = "ln_insert" /\ handler'[p].result = "201"]_vars

\* A loan created by an accepted application exists, and a later application
\* for an active product and a principal within range was refused because the
\* borrower has an outstanding loan.
C15_Witness ==
    \E p \in Procs :
        /\ handler[p].kind = "LOAN_APPLY" /\ handler[p].result = "400"
        /\ loanProducts[handler[p].target].is_active
        /\ handler[p].amount = loanProducts[handler[p].target].min_amount
        /\ HasActiveLoan(handler[p].user)
        /\ \E id \in DOMAIN loans : loans[id].status = "PENDING"

\* C16: an approve request credits the borrower's wallet only for a loan that
\* is PENDING, by exactly the loan's principal, and then sets the loan to
\* DISBURSED with disbursed_at stamped and nothing else of the loan changed; an
\* approve request refused because the loan is not PENDING changes neither the
\* wallets nor the loans.
C16_ApproveDisbursesPrincipal ==
    [][\A p \in Procs :
          LET h == handler[p]
              h1 == handler'[p]
          IN  /\ (h.pc = "idle" /\ h1.kind = "LOAN_APPROVE" /\ h1.result = "400") =>
                   /\ loans[h1.loan_id].status # "PENDING"
                   /\ UNCHANGED <<walletBalance, loans>>
              /\ (h.pc = "ap_credit" /\ h1.pc = "ap_save") =>
                   /\ loans[h.loan_id].status = "PENDING"
                   /\ walletBalance' =
                        [walletBalance EXCEPT ![loans[h.loan_id].borrower] =
                                                  @ + loans[h.loan_id].principal_amount]
              /\ (h.pc = "ap_save" /\ h1.pc = "ap_ledger") =>
                   loans' = [loans EXCEPT ![h.loan_id].status = "DISBURSED",
                                          ![h.loan_id].disbursed = TRUE]]_vars

\* The smaller of two numbers.
Min(a, b) == IF a <= b THEN a ELSE b

\* C17: a repay request is accepted only for a loan that is ACTIVE or
\* DISBURSED, and one refused for the loan's status changes nothing. An
\* accepted request of a positive amount debits min(requested, remaining
\* balance); when the request is at least the remaining balance the loan
\* becomes PAID with balance 0, otherwise it is ACTIVE with its balance reduced
\* by the requested amount. Amounts are compared in half cents.
C17_RepayAppliesMin ==
    [][\A p \in Procs :
          LET h == handler[p]
              h1 == handler'[p]
              remaining == Halves(loans[h.loan_id].balance)
          IN  /\ (h.pc = "idle" /\ h1.kind = "LOAN_REPAY" /\ h1.pc = "rp_wallet") =>
                   loans[h1.loan_id].status \in {"ACTIVE", "DISBURSED"}
              /\ (h.pc = "idle" /\ h1.kind = "LOAN_REPAY" /\ h1.result = "400") =>
                   /\ loans[h1.loan_id].status \notin {"ACTIVE", "DISBURSED"}
                   /\ UNCHANGED <<walletBalance, loans, loanRepayments, walletTransactions>>
              /\ (h.pc = "rp_debit" /\ h1.pc = "rp_save" /\ h.amount > 0) =>
                   Halves(walletBalance[h.user]) - Halves(walletBalance'[h.user])
                       = Min(h.amount, remaining)
              /\ (h.pc = "rp_save" /\ h1.pc = "rp_record" /\ h.amount > 0) =>
                   IF h.amount >= remaining
                   THEN /\ loans'[h.loan_id].status = "PAID"
                        /\ loans'[h.loan_id].balance = 0
                   ELSE /\ loans'[h.loan_id].status = "ACTIVE"
                        /\ Halves(loans'[h.loan_id].balance) = remaining - h.amount]_vars

\* C18: the debit of a repayment (of a positive number of whole cents) takes
\* the applied amount from the wallet of the loan's borrower, whoever issued
\* the request, and changes no other wallet.
C18_RepayDebitsBorrower ==
    [][\A p \in Procs :
          LET h == handler[p]
              borrower == loans[h.loan_id].borrower
          IN  (/\ h.pc = "rp_debit" /\ handler'[p].pc = "rp_save"
               /\ h.amount > 0 /\ h.amount % 2 = 0) =>
                  walletBalance' =
                      [walletBalance EXCEPT ![borrower] =
                           @ - (Min(h.amount, Halves(loans[h.loan_id].balance)) \div 2)]]_vars

\* The terms a request has computed: those of the loan an application
\* created, or those a calculate_repayment request quoted.
ComputedTerms(h) ==
    \/ h.kind = "LOAN_APPLY" /\ h.result = "201"
    \/ h.kind = "LOAN_TERMS" /\ h.result = "200"

\* C19: the interest of a loan is P * (r / 365 / 100) * d and its total is
\* P + interest + F, each rounded to whole cents with ties rounded up.
C19_TermsRoundHalfUp ==
    \A p \in Procs :
        LET h == handler[p]
            product == loanProducts[h.loan.product]
        IN  ComputedTerms(h) =>
              /\ h.loan.interest_amount =
                   RoundHalfUp(InterestNumerator(h.loan.principal_amount, product),
                               InterestDenominator)
              /\ h.loan.total_amount =
                   RoundHalfUp((h.loan.principal_amount + product.facilitation_fee)
                                   * InterestDenominator
                                 + InterestNumerator(h.loan.principal_amount, product),
                               InterestDenominator)

\* The active bands of a kind whose range contains the amount.
ActiveBandsContaining(kind, amount) ==
    {b \in charges : /\ b.is_active
                     /\ b.transaction_type = kind
                     /\ b.min_amount <= amount /\ amount <= b.max_amount}

\* A charge calculation that reached the lookup has answered.
Looked(p) ==
    /\ handler[p].kind = "CHARGE"
    /\ handler[p].pc = "done"
    /\ handler[p].result # "403"

\* C20: a charge lookup returns the charge of the one active band of the kind
\* whose range contains the amount, returns zero without an error when no
\* active band contains it, and two lookups with the same kind and amount
\* under the same band configuration return the same fee.
C20_ChargeLookupIsAFunction ==
    /\ \A p \in Procs :
          Looked(p) =>
             LET bands == ActiveBandsContaining(handler[p].target, handler[p].amount)
             IN  /\ bands = {} => handler[p].result = "200" /\ handler[p].charge = 0
                 /\ Cardinality(bands) = 1 =>
                      /\ handler[p].result = "200"
                      /\ \A b \in bands : handler[p].charge = b.charge
    /\ \A p, q \in Procs :
          (/\ Looked(p) /\ Looked(q)
           /\ handler[p].target = handler[q].target
           /\ handler[p].amount = handler[q].amount) =>
              /\ handler[p].result = handler[q].result
              /\ handler[p].charge = handler[q].charge

\* One lookup returned the charge of the single active band containing its
\* amount, and another returned zero for an amount that only an inactive band
\* of the kind contains.
C20_Witness ==
    \E p, q \in Procs :
        /\ Looked(p) /\ handler[p].result = "200" /\ handler[p].charge > 0
        /\ Cardinality(ActiveBandsContaining(handler[p].target, handler[p].amount)) = 1
        /\ Looked(q) /\ handler[q].result = "200" /\ handler[q].charge = 0
        /\ ActiveBandsContaining(handler[q].target, handler[q].amount) = {}
        /\ \E b \in charges : /\ ~b.is_active
                              /\ b.transaction_type = handler[q].target
                              /\ b.min_amount <= handler[q].amount
                              /\ handler[q].amount <= b.max_amount

\* C21: for every transaction kind and every amount at most one active band
\* of the table contains the amount, whatever charge-band requests were made.
C21_AtMostOneBandMatches ==
    \A kind \in {c.transaction_type : c \in charges}, amount \in ChargeAmounts :
        Cardinality(ActiveBandsContaining(kind, amount)) <= 1

BandRequestKinds == {"CHARGE_CREATE", "CHARGE_UPDATE", "CHARGE_DESTROY"}

\* C22: a step of a request that creates, changes, deactivates or deletes a
\* charge band leaves every transaction record (its charge and total_amount
\* among its fields), every ledger entry and every wallet balance as they
\* were.
C22_BandChangeKeepsRecords ==
    [][(\E p \in Procs : /\ handler'[p] # handler[p]
                         /\ handler'[p].kind \in BandRequestKinds) =>
          /\ walletBalance' = walletBalance
          /\ sendMoney' = sendMoney
          /\ withdrawals' = withdrawals
          /\ deposits' = deposits
          /\ payBills' = payBills
          /\ buyGoods' = buyGoods
          /\ airtimePurchases' = airtimePurchases
          /\ walletTransactions' = walletTransactions]_vars

\* A send-money was recorded with the fee of its time, and a band request
\* that succeeded afterwards left the table such that the lookup for the
\* record's amount no longer gives the record's charge.
C22_Witness ==
    /\ \E r \in sendMoney :
          \/ MultipleObjectsReturned("SEND_MONEY", r.amount)
          \/ r.charge # get_transaction_charge("SEND_MONEY", r.amount)
    /\ \E p \in Procs : /\ handler[p].kind \in BandRequestKinds
                        /\ handler[p].result \in {"200", "201", "204"}
    /\ \E q \in Procs : /\ handler[q].kind = "SEND_MONEY"
                        /\ Recorded(handler[q])
                        /\ handler[q].charge = 1
                        /\ \E r \in sendMoney : /\ r.transaction_id = handler[q].transaction_id
                                                /\ r.charge = handler[q].charge
                                                /\ r.total_amount = r.amount + r.charge

\* The commission the two-decimal column holds of a withdrawal fee: 30% of
\* the fee, in cents.
WithdrawalCommission(charge) == RoundHalfEven(charge * 3, 10)

\* C23: a withdrawal of an amount a with fee f that completed (201), among
\* requests of positive amounts, has debited the customer's wallet by a + f, reduced the agent's float by
\* a, changed no other wallet (the commission is credited nowhere) and left
\* exactly one Commission row under its id, for the agent's user, of type
\* WITHDRAWAL, holding 30% of f.
C23_WithdrawalEffects ==
    \A p \in Procs :
        LET h == handler[p]
            rows == {i \in DOMAIN commissions :
                        commissions[i].transaction_id = h.transaction_id}
        IN  ( /\ h.kind = "WITHDRAWAL"
              /\ AllPositive
              /\ h.pc = "done"
              /\ h.result = "201" )
            => /\ h.effect[h.user] = 0 - (h.amount + h.charge)
               /\ \A w \in Users \ {h.user} : h.effect[w] = 0
               /\ h.floatEffect = 0 - h.amount
               /\ Cardinality(rows) = 1
               /\ \A i \in rows : /\ commissions[i].recipient = h.agent.user
                                  /\ commissions[i].commission_type = "WITHDRAWAL"
                                  /\ commissions[i].amount = WithdrawalCommission(h.charge)

\* C24: the agent_commission of every withdrawal record is exactly 30% of the
\* record's fee, that of every deposit record (of a positive amount) exactly
\* amount * agent.commission_rate / 100, and every Commission row holds the
\* agent_commission of the record under its transaction id.  Amounts are in
\* cents, so the products are compared without dividing.
C24_CommissionExact ==
    /\ \A r \in withdrawals :
          r.amount > 0 => r.agent_commission * 10 = r.charge * 3
    /\ \A r \in deposits :
          r.amount > 0 =>
             r.agent_commission * 100 = r.amount * agents[r.agent].commission_rate
    /\ \A i \in DOMAIN commissions :
          \A r \in withdrawals \cup deposits :
             r.transaction_id = commissions[i].transaction_id =>
                commissions[i].amount = r.agent_commission

\* C25: every Commission row carries the transaction id of a withdrawal or
\* deposit record that exists with status COMPLETED.
C25_CommissionHasCompletedRecord ==
    \A i \in DOMAIN commissions :
        \E r \in withdrawals \cup deposits :
            /\ r.transaction_id = commissions[i].transaction_id
            /\ r.status = "COMPLETED"

\* C26: a stored send-money record whose status is not PENDING is the same
\* row, with every field as it was, after every step of every request.
C26_RecordImmutable ==
    [][\A r \in sendMoney : r.status # "PENDING" => r \in sendMoney']_vars

\* C27: no step of any request removes a wallet whose balance is not zero.
C27_FundedWalletKept ==
    [][\A u \in DOMAIN walletBalance :
          walletBalance[u] # 0 => u \in DOMAIN walletBalance']_vars

TransactionRequestKinds ==
    {"SEND_MONEY", "WITHDRAWAL", "DEPOSIT", "PAYBILL", "BUY_GOODS", "AIRTIME",
     "LOAN_APPROVE", "LOAN_REPAY"}

\* C28: a step of a request that is not a transaction operation leaves every
\* wallet balance, every agent's float balance and every loan's balance as
\* it was.
C28_OnlyTransactionsMoveBalances ==
    [][(\E p \in Procs : /\ handler'[p] # handler[p]
                         /\ handler'[p].kind \notin TransactionRequestKinds) =>
          /\ walletBalance' = walletBalance
          /\ \A a \in DOMAIN agents :
                /\ a \in DOMAIN agents'
                /\ agents'[a].float_balance = agents[a].float_balance
          /\ \A id \in DOMAIN loans :
                /\ id \in DOMAIN loans'
                /\ loans'[id].balance = loans[id].balance]_vars

\* The ids stored in a table of records.
IdsOf(table) == {r.transaction_id : r \in table}

\* No two rows of the table carry the same id.
UniqueIds(table) ==
    \A r1, r2 \in table : r1.transaction_id = r2.transaction_id => r1 = r2

RecordTables ==
    <<sendMoney, withdrawals, deposits, payBills, buyGoods, airtimePurchases, loanRepayments>>

C30_TransfersTerminate ==
    <>[](\A p \in Procs : handler[p].pc \in {"idle", "done"})

\* Two transfers of positive amounts over the same pair of wallets in
\* opposite directions have both run to their end and left their records.
C30_Witness ==
    \E p, q \in Procs :
        /\ p # q
        /\ handler[p].kind = "SEND_MONEY" /\ handler[q].kind = "SEND_MONEY"
        /\ handler[p].user = handler[q].target
        /\ handler[q].user = handler[p].target
        /\ handler[p].user # handler[p].target
        /\ handler[p].amount > 0 /\ handler[q].amount > 0
        /\ Recorded(handler[p]) /\ Recorded(handler[q])

\* The commission the two-decimal column holds of a deposit: the amount
\* times the agent's rate, a percentage, in cents.
DepositCommission(amount, commission_rate) == RoundHalfEven(amount * commission_rate, 100)

\* C31: a deposit of an amount a that completed (201), among requests of
\* positive amounts, has credited the customer's wallet by a (no fee is
\* taken), changed no other wallet, reduced the agent's float by a and left
\* exactly one Commission row under its id, of type DEPOSIT, for the agent's
\* user.
C31_DepositEffects ==
    \A p \in Procs :
        LET h == handler[p]
            rows == {i \in DOMAIN commissions :
                        commissions[i].transaction_id = h.transaction_id}
        IN  ( /\ h.kind = "DEPOSIT"
              /\ AllPositive
              /\ h.pc = "done"
              /\ h.result = "201" )
            => /\ h.charge = 0
               /\ h.effect[h.target] = h.amount
               /\ \A w \in Users \ {h.target} : h.effect[w] = 0
               /\ h.floatEffect = 0 - h.amount
               /\ Cardinality(rows) = 1
               /\ \A i \in rows :
                     /\ commissions[i].recipient = h.agent.user
                     /\ commissions[i].commission_type = "DEPOSIT"
                     /\ commissions[i].amount
                            = DepositCommission(h.amount, h.agent.commission_rate)

\* The agent or merchant a request of handler state h involves is not ACTIVE.
InvolvesInactive(h) ==
    \/ /\ h.kind = "WITHDRAWAL"
       /\ h.target \in AgentNumbers
       /\ agents[h.target].status # "ACTIVE"
    \/ /\ h.kind = "DEPOSIT"
       /\ \E a \in AgentNumbers : agents[a].user = h.user /\ agents[a].status # "ACTIVE"
    \/ /\ h.kind \in {"PAYBILL", "BUY_GOODS"}
       /\ merchants[h.target].status # "ACTIVE"

\* C32: a withdrawal, deposit, pay-bill or buy-goods of a positive amount
\* whose agent or merchant is not ACTIVE saves no balance or float and writes no row, and the
\* response it returns is a rejection.
C32_InactivePartyRejected ==
    \A p \in Procs :
        LET h == handler[p]
        IN  (h.pc # "idle" /\ h.amount > 0 /\ InvolvesInactive(h)) =>
               /\ ~h.mutated
               /\ h.rows = 0
               /\ h.effect = ZeroEffect
               /\ h.floatEffect = 0
               /\ h.pc = "done" => h.result \in Rejections

\* No wallet balance and no agent float is below zero.
NonNegativeBalances ==
    /\ \A u \in DOMAIN walletBalance : walletBalance[u] >= 0
    /\ \A a \in DOMAIN agents : agents[a].float_balance >= 0

\* C33: when the requests run one at a time, no step of a request for an
\* amount greater than zero takes a wallet balance or an agent's float below
\* zero: balances that are all non-negative before the step are all
\* non-negative after it.
C33_SequentialNeverNegative ==
    [][(NonNegativeBalances /\ handler'[Worker].amount > 0) => NonNegativeBalances']_vars

\* The worker's second request, for a positive amount, has taken its payer's
\* wallet down to exactly zero.
C33_Witness ==
    LET h == handler[Worker]
    IN  /\ h.served = 1
        /\ h.pc = "done"
        /\ h.amount > 0
        /\ h.mutated
        /\ h.effect[h.user] < 0
        /\ walletBalance[h.user] = 0

\* The processes whose request is an approve of the loan.
Approvers(loan_id) ==
    {p \in Procs : handler[p].kind = "LOAN_APPROVE" /\ handler[p].loan_id = loan_id}

\* C34: a loan is disbursed at most once: whatever the interleaving of the
\* approve requests on a loan, what they credit to the borrower's wallet is
\* at most the principal, one credit, and at most one ledger entry carries
\* the loan's id; an approve that returned 200 has credited it and left that
\* one entry.
C34_DisbursedAtMostOnce ==
    \A loan_id \in DOMAIN loans :
        LET borrower == loans[loan_id].borrower
            credited == SumOver([p \in Procs |-> handler[p].effect[borrower]],
                                Approvers(loan_id))
            entries == {t \in walletTransactions : t.transaction_id = loan_id}
        IN  /\ credited <= loans[loan_id].principal_amount
            /\ Cardinality(entries) <= 1
            /\ \A p \in Approvers(loan_id) :
                 (handler[p].pc = "done" /\ handler[p].result = "200") =>
                     /\ handler[p].effect[borrower] = loans[loan_id].principal_amount
                     /\ Cardinality(entries) = 1

\* The processes whose request is a repayment of the loan.
Repayers(loan_id) ==
    {p \in Procs : handler[p].kind = "LOAN_REPAY" /\ handler[p].loan_id = loan_id}

\* What a request has taken out of the wallets, in cents.
Debited(h) == 0 - SumOver(h.effect, Users)

\* C35: whatever the interleaving of the repay requests on a loan, what they
\* have debited from wallets equals the loan's amount_paid and is at most its
\* total_amount.  Stated where every repayment of the loan is in view: each
\* process has finished its second request, a repayment of the loan in whole
\* cents, the first requests being the application and the approval.
C35_RepaidEqualsDebited ==
    \A loan_id \in DOMAIN loans :
        LET debited == SumOver([p \in Procs |-> Debited(handler[p])], Repayers(loan_id))
        IN  (\A p \in Procs :
                 /\ p \in Repayers(loan_id)
                 /\ handler[p].served = 1
                 /\ handler[p].pc = "done"
                 /\ handler[p].amount > 0
                 /\ handler[p].total_amount % 2 = 0)
            => /\ debited = loans[loan_id].amount_paid
               /\ debited <= loans[loan_id].total_amount

\* C36: no request changes the principal_amount or the product of a stored
\* loan, so the principal approve credits is the one Apply validated against
\* the product's range: across every step each loan keeps both fields, and
\* an approve credits a principal within [min_amount, max_amount] of the
\* loan's product.
C36_PrincipalAndProductFixed ==
    [][/\ \A loan_id \in DOMAIN loans :
            loan_id \in DOMAIN loans' =>
                /\ loans'[loan_id].principal_amount = loans[loan_id].principal_amount
                /\ loans'[loan_id].product = loans[loan_id].product
       /\ \A p \in Procs :
            (handler[p].pc = "ap_credit" /\ handler'[p].pc = "ap_save") =>
                LET product == loanProducts[handler[p].loan.product]
                IN  /\ handler[p].amount >= product.min_amount
                    /\ handler[p].amount <= product.max_amount]_vars

\* C37: every loan Apply has stored carries a total_amount equal to its
\* stored principal_amount + interest_amount + facilitation_fee.
C37_StoredTotalIsSum ==
    \A loan_id \in DOMAIN loans :
        loans[loan_id].total_amount =
            loans[loan_id].principal_amount + loans[loan_id].interest_amount
                + loans[loan_id].facilitation_fee

\* C38: every identifier generate_transaction_id returns is at most
\* max_length characters long, the limit of the transaction_id and loan_id
\* columns.
C38_IdFitsColumn ==
    \A p \in Procs :
        handler[p].kind = "GENERATE_ID" => Len(handler[p].transaction_id) <= max_length
====
